---- MODULE Spec2Model ----
(***************************************************************************)
(* Model of the scribble-backend game server: player registry, room        *)
(* registry, game engine, word engine, timer engine, guess engine, score   *)
(* engine and the socket event router of src/src/index.js.                 *)
(*                                                                         *)
(* Time is counted in whole seconds.  Advance lets one second pass; timer  *)
(* ticks, timer expiries and the inter-round delay fire when they are due. *)
(* The durations of the word-selection timer and of the drawing timer are  *)
(* scaled down (WordSelectSecs, DrawTimeMin, DrawTimeMax); the scoring     *)
(* constants are those of the source.                                      *)
(***************************************************************************)
EXTENDS Integers, Sequences, FiniteSets, TLC

\* ------------------------------------------------------------------ bounds
\* Number of sockets that ever connect (each gets a fresh player id).
NumPlayers == 3
\* Number of room codes that are ever minted (a code is never minted twice).
NumRooms == 2
\* Seconds of the word-selection timer (WORD_SELECTION_TIMEOUT / 1000, scaled).
WordSelectSecs == 1
\* LIMITS.drawTime.min and .max, in seconds, scaled.
DrawTimeMin == 1
DrawTimeMax == 2
\* Largest value of settings.rounds a client asks for in the model.
MaxRoundsAsked == 2
\* The model follows the server until this many games have started, this many
\* players have left a room or disconnected, and for this many seconds of
\* pending timers.
MaxGames == 1
MaxDepartures == 1
MaxSeconds == 3
\* Seconds the model follows a game whose room keeps its members (SpecSteady).
SteadySeconds == 6
\* Drawing events the model follows (SpecDraw), and the seconds it follows them.
MaxStrokes == 2
DrawSeconds == 3
\* Longest customWords a client sends to the word option generator (SpecWords).
MaxCustomWords == 2

\* ------------------------------------------------------- program constants
LimitMaxPlayersMin == 2
LimitMaxPlayersMax == 12
LimitRoundsMin == 1
LimitRoundsMax == 10
DefaultMaxPlayers == 8
DefaultRounds == 3
BASE_SCORE == 100
MAX_TIME_BONUS == 100
MIN_SCORE == 10
\* DRAWER_SCORE_MULTIPLIER = 0.5, kept as a percentage
DRAWER_SCORE_PERCENT == 50
WORD_OPTIONS_COUNT == 3
\* the delay of setTimeout(progressToNextDrawer, 3000), in seconds
INTER_ROUND_DELAY == 3

PlayerIds == 1..NumPlayers
RoomIds == 1..NumRooms
\* null / undefined for a player id and for a room id
NoPlayer == 0
NoRoomId == 0
\* player.score of a player object that has no score field yet
NoScore == -1
\* game.roundStartTime not set
NoTime == -1

\* LIMITS.customWords.maxLength and .maxCount
LimitCustomWordLength == 50
LimitCustomWordCount == 50

\* ---------------------------------------------------------------- strings
\* A string is a sequence of one-character strings; <<>> also stands for
\* null and undefined (all three are falsy in the source).
NoWord == <<>>
CAT == <<"c", "a", "t">>
\* WORD_LIST, cut down to one of its entries
WORD_LIST == <<CAT>>

\* the payloads clients send as a word or as a guess
CAT_RAW == <<"C", "a", "t", " ">>
ZEBRA == <<"z", "e", "b", "r", "a">>
BLANK == <<" ">>
WordInputs == {CAT_RAW, BLANK}
GuessInputs == {CAT_RAW, ZEBRA, BLANK}

LowerChar(ch) ==
  CASE ch = "C" -> "c"
    [] ch = "A" -> "a"
    [] ch = "T" -> "t"
    [] OTHER -> ch

RECURSIVE TrimLeft(_)
TrimLeft(s) == IF s # <<>> /\ Head(s) = " " THEN TrimLeft(Tail(s)) ELSE s

RECURSIVE TrimRight(_)
TrimRight(s) ==
  IF s # <<>> /\ s[Len(s)] = " " THEN TrimRight(SubSeq(s, 1, Len(s) - 1)) ELSE s

Trim(s) == TrimRight(TrimLeft(s))

ToLowerCase(s) == [i \in 1..Len(s) |-> LowerChar(s[i])]

\* wordEngine.normalizeWord
normalizeWord(word) == IF word = <<>> THEN <<>> ELSE ToLowerCase(Trim(word))

\* guessEngine.normalizeGuess
normalizeGuess(guess) == IF guess = <<>> THEN <<>> ELSE ToLowerCase(Trim(guess))

\* wordEngine.maskWord: every character but the space becomes "_", and the
\* characters are joined with single spaces
maskWord(word) ==
  IF word = <<>> THEN <<>>
  ELSE [i \in 1..(2 * Len(word) - 1) |->
          IF i % 2 = 0 THEN " "
          ELSE IF word[(i + 1) \div 2] = " " THEN " " ELSE "_"]

\* '*'.repeat(n)
Stars(n) == [i \in 1..n |-> "*"]

\* ------------------------------------------------------------ sequences
Range(s) == {s[i] : i \in 1..Len(s)}

Includes(s, x) == \E i \in 1..Len(s) : s[i] = x

\* Array.indexOf, 1-based; 0 when absent
IndexOf(s, x) ==
  IF Includes(s, x) THEN CHOOSE i \in 1..Len(s) : s[i] = x /\ \A j \in 1..(i - 1) : s[j] # x
  ELSE 0

\* Array.splice(i, 1), 1-based
RemoveAt(s, i) == [j \in 1..(Len(s) - 1) |-> IF j < i THEN s[j] ELSE s[j + 1]]

\* array[i] with a 0-based index; undefined (NoPlayer) out of range
At0(s, i) == IF i >= 0 /\ i < Len(s) THEN s[i + 1] ELSE NoPlayer

Min(a, b) == IF a < b THEN a ELSE b
Max(a, b) == IF a > b THEN a ELSE b


\* ------------------------------------------------------------------ state
VARIABLES
  pstate,    \* player id -> "new" | "connected" | "gone"   (players / playerById)
  proom,     \* player.roomId
  pscore,    \* player.score
  rooms,     \* room code -> room object; .registered: the code is in the rooms Map
  timers,    \* room code -> the timer objects whose interval or timeout is pending
  delays,    \* room code -> age in seconds of each pending progressToNextDrawer delay
  rgt,       \* roundGuessTimes: room code -> set of <<round, playerId, time>>
  dclk,      \* room code -> seconds since the room's phase became drawing (0 otherwise)
  drawn,     \* room code -> the drawerId of each tenure of the room's game, in order
  wordgen,   \* a run of the word option generator on its own: the customWords
             \* given, the stage reached, the pool built and the options drawn
  draw,      \* room code -> drawBatches and lastEventTimes of the drawing engine,
             \* and the pending 50 ms flush timeouts of draw_move
  tally      \* games started, departures and seconds so far; horizon: the seconds
             \* followed; leaves: the departures followed; steady: a room with a
             \* game keeps its members

vars == <<pstate, proom, pscore, rooms, timers, delays, rgt, dclk, drawn, draw, wordgen,
          tally>>

\* PHASES (gameEngine); "none" is the phase of the null game
PHASES == {"idle", "word_select", "drawing", "round_end", "game_end"}

\* room.game = null
NullGame ==
  [phase |-> "none", currentRound |-> 0, totalRounds |-> 0, drawerIndex |-> 0,
   drawerId |-> NoPlayer, guessedPlayers |-> <<>>, sinceStart |-> NoTime,
   selectedWord |-> NoWord, maskedWord |-> NoWord]

\* DEFAULT_SETTINGS (customWords and hints are left out of the model)
DEFAULT_SETTINGS ==
  [maxPlayers |-> DefaultMaxPlayers, drawTime |-> DrawTimeMax, rounds |-> DefaultRounds]

\* a room code that was never minted
NoRoom ==
  [minted |-> FALSE, registered |-> FALSE, ownerId |-> NoPlayer, players |-> <<>>,
   settings |-> DEFAULT_SETTINGS, status |-> "waiting", game |-> NullGame]

\* Seconds within which every game of the model ends: at most
\* MaxRoundsAsked + MaxDepartures rounds of NumPlayers tenures, each of a word
\* selection, a drawing phase and an inter-round delay (SpecLive).
LiveSeconds == NumPlayers * (MaxRoundsAsked + MaxDepartures) * (WordSelectSecs + DrawTimeMax + INTER_ROUND_DELAY)

\* every member of a two-player room leaves: one departure more than the
\* other specifications follow
AbandonDepartures == MaxDepartures + 1

\* the inter-round pause and the word selection that follows it
AbandonSeconds == INTER_ROUND_DELAY + WordSelectSecs

\* the largest value sinceStart takes: beyond drawTime every score is MIN_SCORE
AgeCap == WordSelectSecs + DrawTimeMax + INTER_ROUND_DELAY + 1

\* ------------------------------------------------------------ game engine
hasActiveGame(room) == room.game # NullGame /\ room.status = "in_game"

isCurrentDrawer(room, playerId) == room.game # NullGame /\ room.game.drawerId = playerId

\* canStartGame without the check of the owner
canStartGame_anyone(room, playerId) ==
  IF room.status # "waiting" THEN "Game already in progress or finished"
  ELSE IF Len(room.players) < 2 THEN "Need at least 2 players to start"
  ELSE ""

canStartGame(room, playerId) ==
  IF room.ownerId # playerId THEN "Only room owner can start the game"
  ELSE IF room.status # "waiting" THEN "Game already in progress or finished"
  ELSE IF Len(room.players) < 2 THEN "Need at least 2 players to start"
  ELSE ""

initializeGameState(room) ==
  [NullGame EXCEPT !.phase = "word_select", !.currentRound = 1,
                   !.totalRounds = room.settings.rounds, !.drawerIndex = 0,
                   !.drawerId = At0(room.players, 0), !.guessedPlayers = <<>>]

startGame(room, playerId) ==
  LET error == canStartGame(room, playerId) IN
  IF error # "" THEN [success |-> FALSE, room |-> room, error |-> error]
  ELSE [success |-> TRUE,
        room |-> [room EXCEPT !.game = initializeGameState(room), !.status = "in_game"],
        error |-> ""]

\* getNextDrawer without game.currentRound++
getNextDrawer_sameRound(room) ==
  LET game == room.game
      wrap == game.drawerIndex + 1 >= Len(room.players)
      nextIndex == IF wrap THEN 0 ELSE game.drawerIndex + 1
  IN [room |-> [room EXCEPT !.game.drawerIndex = nextIndex,
                            !.game.drawerId = At0(room.players, nextIndex)],
      roundIncremented |-> wrap]

getNextDrawer(room) ==
  LET game == room.game
      wrap == game.drawerIndex + 1 >= Len(room.players)
      nextIndex == IF wrap THEN 0 ELSE game.drawerIndex + 1
  IN [room |-> [room EXCEPT !.game.currentRound = IF wrap THEN @ + 1 ELSE @,
                            !.game.drawerIndex = nextIndex,
                            !.game.drawerId = At0(room.players, nextIndex)],
      roundIncremented |-> wrap]

startRound(room) ==
  IF ~hasActiveGame(room) THEN [success |-> FALSE, room |-> room]
  ELSE [success |-> TRUE,
        room |-> [room EXCEPT !.game.guessedPlayers = <<>>, !.game.phase = "word_select"]]

\* endRound that ends the game after every last round, whoever drew
endRound_anyDrawer(room) ==
  IF ~hasActiveGame(room) THEN [success |-> FALSE, room |-> room, gameEnded |-> FALSE]
  ELSE [success |-> TRUE, room |-> [room EXCEPT !.game.phase = "round_end"],
        gameEnded |-> room.game.currentRound >= room.game.totalRounds]

endRound(room) ==
  IF ~hasActiveGame(room) THEN [success |-> FALSE, room |-> room, gameEnded |-> FALSE]
  ELSE LET isLastDrawer == room.game.drawerIndex = Len(room.players) - 1
           isLastRound == room.game.currentRound >= room.game.totalRounds
       IN [success |-> TRUE, room |-> [room EXCEPT !.game.phase = "round_end"],
           gameEnded |-> isLastDrawer /\ isLastRound]

progressToNextDrawer(room) ==
  IF ~hasActiveGame(room) THEN [success |-> FALSE, room |-> room, roundChanged |-> FALSE]
  ELSE LET drawerInfo == getNextDrawer(room) IN
       [success |-> TRUE, room |-> startRound(drawerInfo.room).room,
        roundChanged |-> drawerInfo.roundIncremented]

\* endGame without room.status = ROOM_STATUS.FINISHED
endGame_statusKept(room) ==
  IF ~hasActiveGame(room) THEN [success |-> FALSE, room |-> room, roundsPlayed |-> 0]
  ELSE [success |-> TRUE,
        room |-> [room EXCEPT !.game.phase = "game_end"],
        roundsPlayed |-> room.game.currentRound]

endGame(room) ==
  IF ~hasActiveGame(room) THEN [success |-> FALSE, room |-> room, roundsPlayed |-> 0]
  ELSE [success |-> TRUE,
        room |-> [room EXCEPT !.game.phase = "game_end", !.status = "finished"],
        roundsPlayed |-> room.game.currentRound]

\* resetGame that keeps the game object
resetGame_gameKept(room) == [room EXCEPT !.status = "waiting"]

resetGame(room) == [room EXCEPT !.game = NullGame, !.status = "waiting"]

transitionPhase(room, newPhase) ==
  IF ~hasActiveGame(room) THEN [success |-> FALSE, room |-> room]
  ELSE IF newPhase \notin PHASES THEN [success |-> FALSE, room |-> room]
  ELSE [success |-> TRUE, room |-> [room EXCEPT !.game.phase = newPhase]]

\* ------------------------------------------------------------ word engine
\* the outcomes of [...wordPool].sort(() => Math.random() - 0.5)
Shuffles(pool) ==
  {s \in [1..Len(pool) -> Range(pool)] :
     \A w \in Range(pool) :
        Cardinality({i \in 1..Len(pool) : s[i] = w}) =
        Cardinality({i \in 1..Len(pool) : pool[i] = w})}

getWordPool == WORD_LIST

\* WORD_LIST, cut down to 'cat' and to 'telescope', which it lists twice
TELESCOPE == <<"t", "e", "l", "e", "s", "c", "o", "p", "e">>
WORD_LIST_TWICE == <<CAT, TELESCOPE, TELESCOPE>>

\* validateSettings, customWords: the strings that are not blank, trimmed and
\* lowercased, of at most maxLength characters, the first maxCount of them
validateCustomWords(customWords) ==
  LET kept == SelectSeq(customWords, LAMBDA w : Trim(w) # <<>>)
      normal == [i \in 1..Len(kept) |-> ToLowerCase(Trim(kept[i]))]
      short == SelectSeq(normal, LAMBDA w : Len(w) <= LimitCustomWordLength)
  IN SubSeq(short, 1, Min(Len(short), LimitCustomWordCount))

\* getWordPool(customWords) over a builtin list: the custom words the list does
\* not include are pushed after it
getWordPoolOf(list, customWords) ==
  LET customLower == [i \in 1..Len(customWords) |-> ToLowerCase(customWords[i])]
  IN list \o SelectSeq(customLower, LAMBDA w : ~Includes(list, w))

\* the inputs, stages and results of a run of the generator
CustomWordInputs ==
  UNION {[1..n -> {CAT_RAW, ZEBRA, BLANK, TELESCOPE}] : n \in 0..MaxCustomWords}

NoWordGen == [stage |-> "idle", customWords |-> <<>>, pool |-> <<>>, options |-> <<>>]

generateWordOptions(shuffled, count) == SubSeq(shuffled, 1, Min(count, Len(shuffled)))

getSelectedWord(room) == IF room.game = NullGame THEN NoWord ELSE room.game.selectedWord

getMaskedWord(room) == IF room.game = NullGame THEN NoWord ELSE room.game.maskedWord

clearWordSelection(room) ==
  IF room.game # NullGame
  THEN [room EXCEPT !.game.selectedWord = NoWord, !.game.maskedWord = NoWord]
  ELSE room

\* selectWord without the check of the phase
selectWord_anyPhase(room, playerId, selectedWord) ==
  LET normalized == normalizeWord(selectedWord)
      fail(e) == [success |-> FALSE, room |-> room, maskedWord |-> NoWord, error |-> e]
  IN IF ~hasActiveGame(room) THEN fail("No active game in this room")
     ELSE IF ~isCurrentDrawer(room, playerId) THEN fail("Only drawer can select word")
     ELSE IF normalized = <<>> THEN fail("Invalid word selection")
     ELSE LET r1 == [room EXCEPT !.game.selectedWord = normalized,
                                 !.game.maskedWord = maskWord(normalized)]
          IN [success |-> TRUE, room |-> transitionPhase(r1, "drawing").room,
              maskedWord |-> maskWord(normalized), error |-> ""]

\* selectWord without the check of the drawer
selectWord_anyone(room, playerId, selectedWord) ==
  LET normalized == normalizeWord(selectedWord)
      fail(e) == [success |-> FALSE, room |-> room, maskedWord |-> NoWord, error |-> e]
  IN IF ~hasActiveGame(room) THEN fail("No active game in this room")
     ELSE IF room.game.phase # "word_select" THEN fail("Not in word selection phase")
     ELSE IF normalized = <<>> THEN fail("Invalid word selection")
     ELSE LET r1 == [room EXCEPT !.game.selectedWord = normalized,
                                 !.game.maskedWord = maskWord(normalized)]
          IN [success |-> TRUE, room |-> transitionPhase(r1, "drawing").room,
              maskedWord |-> maskWord(normalized), error |-> ""]

selectWord(room, playerId, selectedWord) ==
  LET normalized == normalizeWord(selectedWord)
      fail(e) == [success |-> FALSE, room |-> room, maskedWord |-> NoWord, error |-> e]
  IN IF ~hasActiveGame(room) THEN fail("No active game in this room")
     ELSE IF ~isCurrentDrawer(room, playerId) THEN fail("Only drawer can select word")
     ELSE IF room.game.phase # "word_select" THEN fail("Not in word selection phase")
     ELSE IF normalized = <<>> THEN fail("Invalid word selection")
     ELSE LET r1 == [room EXCEPT !.game.selectedWord = normalized,
                                 !.game.maskedWord = maskWord(normalized)]
          IN [success |-> TRUE, room |-> transitionPhase(r1, "drawing").room,
              maskedWord |-> maskWord(normalized), error |-> ""]

autoSelectWord(room, shuffled) ==
  LET options == generateWordOptions(shuffled, WORD_OPTIONS_COUNT)
      fail == [success |-> FALSE, room |-> room, maskedWord |-> NoWord]
  IN IF ~hasActiveGame(room) THEN fail
     ELSE IF room.game.phase # "word_select" THEN fail
     ELSE IF Len(options) = 0 THEN fail
     ELSE LET normalized == normalizeWord(options[1])
              r1 == [room EXCEPT !.game.selectedWord = normalized,
                                 !.game.maskedWord = maskWord(normalized)]
          IN [success |-> TRUE, room |-> transitionPhase(r1, "drawing").room,
              maskedWord |-> maskWord(normalized)]


\* ----------------------------------------------------------- timer engine
\* A timer object of startTimer.  elapsed counts the seconds since it was
\* started; inMap says that activeTimers maps the room code to this object.
NewTimer(type, duration) ==
  [type |-> type, duration |-> duration, remaining |-> duration, elapsed |-> 0,
   intervalLive |-> TRUE, inMap |-> TRUE]

hasActiveTimer(T, roomId) == \E i \in 1..Len(T[roomId]) : T[roomId][i].inMap

\* clearTimer that does activeTimers.delete only: neither clearInterval nor
\* clearTimeout
clearTimer_deleteOnly(T, roomId) ==
  [T EXCEPT ![roomId] = [j \in 1..Len(@) |-> [@[j] EXCEPT !.inMap = FALSE]]]

\* clearInterval + clearTimeout of the object in activeTimers, activeTimers.delete
clearTimer(T, roomId) == [T EXCEPT ![roomId] = SelectSeq(@, LAMBDA t : ~t.inMap)]

startTimer(T, roomId, type, duration) ==
  IF roomId \notin RoomIds THEN T
  ELSE IF type \notin {"word_selection", "drawing"} THEN T
  ELSE IF duration <= 0 THEN T
  ELSE [clearTimer(T, roomId) EXCEPT ![roomId] = Append(@, NewTimer(type, duration))]

\* stopTimer that does clearInterval and activeTimers.delete, not clearTimeout
stopTimer_timeoutKept(T, roomId) ==
  [T EXCEPT ![roomId] =
     [j \in 1..Len(@) |-> IF @[j].inMap
                          THEN [@[j] EXCEPT !.intervalLive = FALSE, !.inMap = FALSE]
                          ELSE @[j]]]

stopTimer(T, roomId) == IF hasActiveTimer(T, roomId) THEN clearTimer(T, roomId) ELSE T

\* startWordSelectionTimer that starts no timer
startWordSelectionTimer_none(room, T, roomId) == T

startWordSelectionTimer(room, T, roomId) ==
  IF ~hasActiveGame(room) THEN T
  ELSE IF room.game.phase # "word_select" THEN T
  ELSE startTimer(T, roomId, "word_selection", WordSelectSecs)

\* startDrawingTimer with the word-selection duration
startDrawingTimer_wordSecs(room, T, roomId) ==
  IF ~hasActiveGame(room) THEN T
  ELSE IF room.game.phase # "drawing" THEN T
  ELSE startTimer(T, roomId, "drawing", WordSelectSecs)

\* startDrawingTimer that starts a timer of the kind word_selection
startDrawingTimer_selectionKind(room, T, roomId) ==
  IF ~hasActiveGame(room) THEN T
  ELSE IF room.game.phase # "drawing" THEN T
  ELSE startTimer(T, roomId, "word_selection", room.settings.drawTime)

startDrawingTimer(room, T, roomId) ==
  IF ~hasActiveGame(room) THEN T
  ELSE IF room.game.phase # "drawing" THEN T
  ELSE startTimer(T, roomId, "drawing", room.settings.drawTime)

\* the setTimeout callback without clearInterval: the timer object stays
\* scheduled after its expiry
expireTimer_timerKept(T, roomId, i) ==
  [T EXCEPT ![roomId] = [j \in 1..Len(@) |-> [@[j] EXCEPT !.inMap = FALSE]]]

\* the body of the setTimeout callback before onTimeout is called: the object's
\* interval is cleared, its timeout has fired, activeTimers.delete(roomId)
expireTimer(T, roomId, i) ==
  [T EXCEPT ![roomId] =
     LET rest == RemoveAt(@, i) IN [j \in 1..Len(rest) |-> [rest[j] EXCEPT !.inMap = FALSE]]]

\* the body of the setInterval callback around onTick
tickTimer(T, roomId, i) ==
  [T EXCEPT ![roomId][i].remaining = @ - 1,
            ![roomId][i].intervalLive = (T[roomId][i].remaining - 1 > 0)]

\* ----------------------------------------------------------- guess engine
MIN_GUESS_LENGTH == 1
MAX_GUESS_LENGTH == 50

validateGuessFormat(guess) ==
  LET normalized == normalizeGuess(guess) IN
  IF guess = <<>> THEN [valid |-> FALSE, normalized |-> <<>>, error |-> "Guess must be a string"]
  ELSE IF Len(normalized) < MIN_GUESS_LENGTH
    THEN [valid |-> FALSE, normalized |-> <<>>, error |-> "Guess cannot be empty"]
  ELSE IF Len(normalized) > MAX_GUESS_LENGTH
    THEN [valid |-> FALSE, normalized |-> <<>>, error |-> "Guess cannot exceed 50 characters"]
  ELSE [valid |-> TRUE, normalized |-> normalized, error |-> ""]

\* validateGuess without the guessedPlayers.includes(playerId) check
validateGuess_repeatable(room, playerId, guess) ==
  LET fail(e) == [success |-> FALSE, isCorrect |-> FALSE, room |-> room, error |-> e]
      format == validateGuessFormat(guess)
      selectedWord == getSelectedWord(room)
      isCorrect == format.normalized = normalizeWord(selectedWord)
  IN IF ~hasActiveGame(room) THEN fail("No active game in this room")
     ELSE IF room.game.phase # "drawing"
       THEN fail("Guessing is only allowed during drawing phase")
     ELSE IF isCurrentDrawer(room, playerId) THEN fail("Drawer cannot guess")
     ELSE IF ~format.valid THEN fail(format.error)
     ELSE IF selectedWord = NoWord THEN fail("No word selected for this round")
     ELSE [success |-> TRUE, isCorrect |-> isCorrect,
           room |-> IF isCorrect
                    THEN [room EXCEPT !.game.guessedPlayers = Append(@, playerId)]
                    ELSE room,
           error |-> ""]

\* validateGuess with the format check ahead of the guessedPlayers check
validateGuess_formatFirst(room, playerId, guess) ==
  LET fail(e) == [success |-> FALSE, isCorrect |-> FALSE, room |-> room, error |-> e]
      format == validateGuessFormat(guess)
      selectedWord == getSelectedWord(room)
      isCorrect == format.normalized = normalizeWord(selectedWord)
  IN IF ~hasActiveGame(room) THEN fail("No active game in this room")
     ELSE IF room.game.phase # "drawing"
       THEN fail("Guessing is only allowed during drawing phase")
     ELSE IF isCurrentDrawer(room, playerId) THEN fail("Drawer cannot guess")
     ELSE IF ~format.valid THEN fail(format.error)
     ELSE IF Includes(room.game.guessedPlayers, playerId)
       THEN fail("You have already guessed correctly")
     ELSE IF selectedWord = NoWord THEN fail("No word selected for this round")
     ELSE [success |-> TRUE, isCorrect |-> isCorrect,
           room |-> IF isCorrect
                    THEN [room EXCEPT !.game.guessedPlayers = Append(@, playerId)]
                    ELSE room,
           error |-> ""]

validateGuess(room, playerId, guess) ==
  LET fail(e) == [success |-> FALSE, isCorrect |-> FALSE, room |-> room, error |-> e]
      format == validateGuessFormat(guess)
      selectedWord == getSelectedWord(room)
      isCorrect == format.normalized = normalizeWord(selectedWord)
  IN IF ~hasActiveGame(room) THEN fail("No active game in this room")
     ELSE IF room.game.phase # "drawing"
       THEN fail("Guessing is only allowed during drawing phase")
     ELSE IF isCurrentDrawer(room, playerId) THEN fail("Drawer cannot guess")
     ELSE IF Includes(room.game.guessedPlayers, playerId)
       THEN fail("You have already guessed correctly")
     ELSE IF ~format.valid THEN fail(format.error)
     ELSE IF selectedWord = NoWord THEN fail("No word selected for this round")
     ELSE [success |-> TRUE, isCorrect |-> isCorrect,
           room |-> IF isCorrect
                    THEN [room EXCEPT !.game.guessedPlayers = Append(@, playerId)]
                    ELSE room,
           error |-> ""]

getGuessedPlayersCount(room) ==
  IF room.game = NullGame THEN 0 ELSE Len(room.game.guessedPlayers)

\* allGuessersGuessed with > for >=
allGuessersGuessed_strict(room) ==
  IF room.game = NullGame THEN FALSE
  ELSE LET guessers == SelectSeq(room.players, LAMBDA q : q # room.game.drawerId)
       IN getGuessedPlayersCount(room) > Len(guessers)

allGuessersGuessed(room) ==
  IF room.game = NullGame THEN FALSE
  ELSE LET guessers == SelectSeq(room.players, LAMBDA q : q # room.game.drawerId)
       IN getGuessedPlayersCount(room) >= Len(guessers)

\* ----------------------------------------------------------- score engine
calculateScore(roundTime, guessTime, isDrawer) ==
  IF roundTime <= 0 \/ guessTime < 0 \/ guessTime > roundTime THEN MIN_SCORE
  ELSE LET \* BASE_SCORE + MAX_TIME_BONUS * (1 - guessTime / roundTime), times roundTime
           scaled == BASE_SCORE * roundTime + MAX_TIME_BONUS * (roundTime - guessTime)
           score == IF isDrawer
                    THEN (scaled * DRAWER_SCORE_PERCENT) \div (100 * roundTime)
                    ELSE scaled \div roundTime
       IN Max(MIN_SCORE, score)

hasGuessTime(G, roomId, round, playerId) ==
  \E e \in G[roomId] : e[1] = round /\ e[2] = playerId

getGuessTime(G, roomId, round, playerId) ==
  IF hasGuessTime(G, roomId, round, playerId)
  THEN (CHOOSE e \in G[roomId] : e[1] = round /\ e[2] = playerId)[3]
  ELSE NoTime

recordGuessTime(G, roomId, round, playerId, timestamp) ==
  [G EXCEPT ![roomId] =
     {e \in @ : ~(e[1] = round /\ e[2] = playerId)} \cup {<<round, playerId, timestamp>>}]

clearRoundScoring(G, roomId) == [G EXCEPT ![roomId] = {}]

\* --------------------------------------------------------- drawing engine
\* A payload of a drawing event: an object, or something that is not one.
STROKE == "stroke"
NOT_OBJECT == "not an object"
DrawInputs == {STROKE, NOT_OBJECT}

IsObject(data) == data # NOT_OBJECT

\* batch: drawBatches.get(roomId), <<>> when the room has no entry.  last:
\* lastEventTimes.get(roomId): "none" when the room has no entry, "recent" when
\* less than 1000 / MAX_DRAW_EVENTS_PER_SECOND ms have passed since, "old"
\* otherwise.  flushes: one entry for each pending setTimeout of BATCH_WINDOW_MS,
\* TRUE once the throttle interval it was scheduled in has passed.
NoDraw == [batch |-> <<>>, last |-> "none", flushes |-> <<>>]

\* shouldThrottle: sets lastEventTimes when it answers false
shouldThrottle(d) ==
  IF d.last = "recent" THEN [throttled |-> TRUE, d |-> d]
  ELSE [throttled |-> FALSE, d |-> [d EXCEPT !.last = "recent"]]

clearBatch(D, roomId) == [D EXCEPT ![roomId].batch = <<>>, ![roomId].last = "none"]

\* clearDrawingState that clears nothing
clearDrawingState_kept(D, roomId) == D

clearDrawingState(D, roomId) == clearBatch(D, roomId)

validateDrawingEvent(room, playerId) ==
  IF room.game = NullGame THEN "No active game in this room"
  ELSE IF room.status # "in_game" THEN "Game is not active"
  ELSE IF room.game.phase # "drawing" THEN "Not in drawing phase"
  ELSE IF ~isCurrentDrawer(room, playerId) THEN "Only drawer can draw"
  ELSE ""

\* handleDrawStart and handleDrawEnd: the batch is cleared before the data is
\* looked at
handleDrawStart(W, roomId, playerId, data) ==
  LET error == validateDrawingEvent(W.rooms[roomId], playerId)
      W1 == [W EXCEPT !.draw = clearBatch(@, roomId)]
  IN IF error # "" THEN [success |-> FALSE, data |-> <<>>, error |-> error, W |-> W]
     ELSE IF ~IsObject(data)
     THEN [success |-> FALSE, data |-> <<>>, error |-> "Invalid drawing data", W |-> W1]
     ELSE [success |-> TRUE, data |-> <<data>>, error |-> "", W |-> W1]

handleDrawEnd(W, roomId, playerId, data) == handleDrawStart(W, roomId, playerId, data)

\* handleDrawMove: a throttled event joins the batch as it is; an event that is
\* not throttled is relayed, after the batch if there is one, and the batch
\* keeps it
handleDrawMove(W, roomId, playerId, data) ==
  LET error == validateDrawingEvent(W.rooms[roomId], playerId)
      t == shouldThrottle(W.draw[roomId])
      W1 == [W EXCEPT !.draw[roomId] = t.d]
      batch == Append(W.draw[roomId].batch, data)
      WB == [W1 EXCEPT !.draw[roomId].batch = batch]
  IN IF error # ""
     THEN [success |-> FALSE, data |-> <<>>, shouldBatch |-> FALSE, error |-> error, W |-> W]
     ELSE IF t.throttled
     THEN [success |-> TRUE, data |-> <<>>, shouldBatch |-> TRUE, error |-> "", W |-> WB]
     ELSE IF ~IsObject(data)
     THEN [success |-> FALSE, data |-> <<>>, shouldBatch |-> FALSE,
           error |-> "Invalid drawing data", W |-> W1]
     ELSE IF W.draw[roomId].batch # <<>>
     THEN [success |-> TRUE, data |-> batch, shouldBatch |-> FALSE, error |-> "", W |-> WB]
     ELSE [success |-> TRUE, data |-> <<data>>, shouldBatch |-> FALSE, error |-> "", W |-> W1]

handleClearCanvas(W, roomId, playerId) ==
  LET error == validateDrawingEvent(W.rooms[roomId], playerId)
  IN IF error # "" THEN [success |-> FALSE, error |-> error, W |-> W]
     ELSE [success |-> TRUE, error |-> "", W |-> [W EXCEPT !.draw = clearBatch(@, roomId)]]

\* flushBatch: the batch, deleted from drawBatches
flushBatch(D, roomId) == [batch |-> D[roomId].batch, D |-> [D EXCEPT ![roomId].batch = <<>>]]

\* ------------------------------------------------------- player registry
getPlayerById(playerId) == playerId \in PlayerIds /\ pstate[playerId] = "connected"

\* players.js of src/ defines neither function; index.js calls both
updatePlayerScore(S, playerId, newScore) == [S EXCEPT ![playerId] = newScore]

resetPlayerScores(S, playerIds) ==
  [q \in PlayerIds |-> IF Includes(playerIds, q) /\ getPlayerById(q) THEN 0 ELSE S[q]]

\* player.score || 0
ScoreOrZero(S, playerId) == IF S[playerId] = NoScore THEN 0 ELSE S[playerId]

\* W is the state a handler works on: rooms, timers, delays, score, rgt, dclk, out
awardGuessScore(W, roomId, playerId) ==
  LET room == W.rooms[roomId]
      game == room.game
      fail == [success |-> FALSE, W |-> W, score |-> 0, totalScore |-> 0]
  IN IF ~hasActiveGame(room) THEN fail
     ELSE IF hasGuessTime(W.rgt, roomId, game.currentRound, playerId)
       THEN IF ~getPlayerById(playerId) THEN fail
            ELSE [success |-> TRUE, W |-> W,
                  score |-> calculateScore(room.settings.drawTime,
                              getGuessTime(W.rgt, roomId, game.currentRound, playerId),
                              isCurrentDrawer(room, playerId)),
                  totalScore |-> ScoreOrZero(W.score, playerId)]
     ELSE LET \* (guessTimestamp - (game.roundStartTime || Date.now())) / 1000
              guessTimeSeconds == IF game.sinceStart = NoTime THEN 0 ELSE game.sinceStart
              G1 == recordGuessTime(W.rgt, roomId, game.currentRound, playerId, guessTimeSeconds)
              roundScore == calculateScore(room.settings.drawTime, guessTimeSeconds,
                                           isCurrentDrawer(room, playerId))
              newTotalScore == ScoreOrZero(W.score, playerId) + roundScore
          IN IF ~getPlayerById(playerId)
             THEN [success |-> FALSE, W |-> [W EXCEPT !.rgt = G1], score |-> 0, totalScore |-> 0]
             ELSE [success |-> TRUE,
                   W |-> [W EXCEPT !.rgt = G1,
                                   !.score = updatePlayerScore(@, playerId, newTotalScore)],
                   score |-> roundScore, totalScore |-> newTotalScore]

awardDrawerScore(W, roomId) ==
  LET room == W.rooms[roomId]
      game == room.game
      drawerId == game.drawerId
      scorePerGuesser == (BASE_SCORE * DRAWER_SCORE_PERCENT) \div 100
      drawerScore == getGuessedPlayersCount(room) * scorePerGuesser
      now == IF game.sinceStart = NoTime THEN 0 ELSE game.sinceStart
      G1 == recordGuessTime(W.rgt, roomId, game.currentRound, drawerId, now)
  IN IF ~hasActiveGame(room) THEN W
     ELSE IF hasGuessTime(W.rgt, roomId, game.currentRound, drawerId) THEN W
     ELSE IF ~getPlayerById(drawerId) THEN [W EXCEPT !.rgt = G1]
     ELSE [W EXCEPT !.rgt = G1,
                    !.score = updatePlayerScore(@, drawerId,
                                ScoreOrZero(W.score, drawerId) + drawerScore)]

\* Array.sort((a, b) => b.score - a.score): descending, ties in the given order
RECURSIVE sortByScore(_)
sortByScore(s) ==
  IF s = <<>> THEN <<>>
  ELSE LET rest == sortByScore(SubSeq(s, 1, Len(s) - 1))
           e == s[Len(s)]
           k == Cardinality({i \in 1..Len(rest) : rest[i].score >= e.score})
       IN SubSeq(rest, 1, k) \o <<e>> \o SubSeq(rest, k + 1, Len(rest))

getLeaderboard(room, S) ==
  LET present == SelectSeq(room.players, LAMBDA q : getPlayerById(q)) IN
  sortByScore([i \in 1..Len(present) |->
                 [playerId |-> present[i], score |-> ScoreOrZero(S, present[i])]])


\* ------------------------------------------------------------ event router
\* serializeGameState(room); NullSer is its null
NullSer ==
  [phase |-> "none", currentRound |-> 0, totalRounds |-> 0, drawerId |-> NoPlayer,
   drawerIndex |-> 0, guessedPlayers |-> <<>>, maskedWord |-> NoWord]

serializeGameState(room) ==
  IF room.game = NullGame THEN NullSer
  ELSE [phase |-> room.game.phase, currentRound |-> room.game.currentRound,
        totalRounds |-> room.game.totalRounds, drawerId |-> room.game.drawerId,
        drawerIndex |-> room.game.drawerIndex,
        guessedPlayers |-> room.game.guessedPlayers,
        maskedWord |-> room.game.maskedWord]

\* An emitted event.  to, ev: the receiving player and the event name.  room,
\* phase, drawer, secret: the room it belongs to and that room's phase, drawerId
\* and selectedWord at the moment of the emit.  The other fields are the
\* payload; a field the event does not carry has the value it has here.
NoMsg ==
  [to |-> NoPlayer, ev |-> "", room |-> NoRoomId, phase |-> "none", drawer |-> NoPlayer,
   secret |-> NoWord,
   game |-> NullSer, word |-> NoWord, maskedWord |-> NoWord, message |-> NoWord,
   options |-> <<>>, data |-> <<>>, playerId |-> NoPlayer, isCorrect |-> FALSE, autoSelected |-> FALSE,
   remaining |-> 0, type |-> "", score |-> 0, totalScore |-> 0, leaderboard |-> <<>>,
   error |-> ""]

\* io.to(player.socketId).emit(ev, payload)
Emit(W, roomId, to, ev, payload) ==
  LET meta == IF roomId \in RoomIds
              THEN [to |-> to, ev |-> ev, room |-> roomId,
                    phase |-> W.rooms[roomId].game.phase,
                    drawer |-> W.rooms[roomId].game.drawerId,
                    secret |-> W.rooms[roomId].game.selectedWord]
              ELSE [to |-> to, ev |-> ev]
  IN [W EXCEPT !.out = Append(@, payload @@ meta @@ NoMsg)]

RECURSIVE EmitAll(_, _, _, _, _)
EmitAll(W, roomId, tos, ev, payload) ==
  IF tos = <<>> THEN W
  ELSE EmitAll(Emit(W, roomId, Head(tos), ev, payload), roomId, Tail(tos), ev, payload)

\* the members of a room object that getPlayerById finds
Reachable(room) == SelectSeq(room.players, LAMBDA q : getPlayerById(q))

broadcastToRoom(W, roomId, ev, payload) ==
  IF ~W.rooms[roomId].registered THEN W
  ELSE EmitAll(W, roomId, Reachable(W.rooms[roomId]), ev, payload)

\* broadcastRoomUpdate to the owner only
broadcastRoomUpdate_ownerOnly(W, roomId) ==
  IF ~W.rooms[roomId].registered THEN W
  ELSE EmitAll(W, roomId,
               SelectSeq(Reachable(W.rooms[roomId]), LAMBDA q : q = W.rooms[roomId].ownerId),
               "room_updated", [error |-> ""])

broadcastRoomUpdate(W, roomId) ==
  IF ~W.rooms[roomId].registered THEN W
  ELSE EmitAll(W, roomId, Reachable(W.rooms[roomId]), "room_updated", [error |-> ""])

startRoundForRoom(W, roomId, shuffled) ==
  LET result == startRound(W.rooms[roomId])
      room == [result.room EXCEPT !.game.sinceStart = 0]
      W1 == [W EXCEPT !.rooms[roomId] = room]
      options == generateWordOptions(shuffled, WORD_OPTIONS_COUNT)
      drawerId == room.game.drawerId
      W2 == IF getPlayerById(drawerId)
            THEN Emit(W1, roomId, drawerId, "word_options", [options |-> options])
            ELSE W1
      W3 == broadcastToRoom(W2, roomId, "round_started",
                            [game |-> serializeGameState(room), playerId |-> drawerId])
  IN IF ~result.success THEN W
     ELSE [W3 EXCEPT !.timers = startWordSelectionTimer(room, @, roomId),
                     !.drawn[roomId] = Append(@, drawerId)]

\* EmitDrawingStarted with the drawer's payload for every member
RECURSIVE EmitDrawingStarted_wordToAll(_, _, _)
EmitDrawingStarted_wordToAll(W, roomId, tos) ==
  IF tos = <<>> THEN W
  ELSE LET room == W.rooms[roomId]
           payload == [game |-> serializeGameState(room),
                       playerId |-> room.game.drawerId,
                       word |-> getSelectedWord(room)]
       IN EmitDrawingStarted_wordToAll(Emit(W, roomId, Head(tos), "drawing_started", payload),
                                       roomId, Tail(tos))

RECURSIVE EmitDrawingStarted(_, _, _)
EmitDrawingStarted(W, roomId, tos) ==
  IF tos = <<>> THEN W
  ELSE LET room == W.rooms[roomId]
           payload == IF Head(tos) = room.game.drawerId
                      THEN [game |-> serializeGameState(room),
                            playerId |-> room.game.drawerId,
                            word |-> getSelectedWord(room)]
                      ELSE [game |-> serializeGameState(room),
                            playerId |-> room.game.drawerId,
                            maskedWord |-> getMaskedWord(room)]
       IN EmitDrawingStarted(Emit(W, roomId, Head(tos), "drawing_started", payload),
                             roomId, Tail(tos))

startDrawingPhase(W, roomId) ==
  LET W1 == IF W.rooms[roomId].game.sinceStart = NoTime
            THEN [W EXCEPT !.rooms[roomId].game.sinceStart = 0]
            ELSE W
      W1c == [W1 EXCEPT !.draw = clearDrawingState(@, roomId)]
      W2 == EmitDrawingStarted(W1c, roomId, Reachable(W1c.rooms[roomId]))
  IN [W2 EXCEPT !.timers = startDrawingTimer(W2.rooms[roomId], @, roomId)]

endGameForRoom(W, roomId) ==
  LET W1 == [W EXCEPT !.timers = stopTimer(@, roomId)]
      result == endGame(W1.rooms[roomId])
      W2 == [W1 EXCEPT !.rooms[roomId] = result.room]
      W3 == broadcastToRoom(W2, roomId, "game_ended",
                            [remaining |-> result.roundsPlayed,
                             leaderboard |-> getLeaderboard(W2.rooms[roomId], W2.score)])
  IN IF ~result.success THEN W1
     ELSE [W3 EXCEPT !.rooms[roomId] = clearWordSelection(@),
                     !.draw = clearDrawingState(@, roomId),
                     !.rgt = clearRoundScoring(@, roomId)]

endRoundForRoom(W, roomId) ==
  LET W1 == [W EXCEPT !.timers = stopTimer(@, roomId)]
      W2 == awardDrawerScore(W1, roomId)
      result == endRound(W2.rooms[roomId])
      W3 == [W2 EXCEPT !.rooms[roomId] = result.room]
      W4 == broadcastToRoom(W3, roomId, "round_ended",
                            [game |-> serializeGameState(W3.rooms[roomId]),
                             leaderboard |-> getLeaderboard(W3.rooms[roomId], W3.score),
                             word |-> getSelectedWord(W3.rooms[roomId])])
      W5 == [W4 EXCEPT !.rooms[roomId] = clearWordSelection(@),
                       !.draw = clearDrawingState(@, roomId),
                       !.rgt = clearRoundScoring(@, roomId)]
  IN IF ~result.success THEN W2
     ELSE IF result.gameEnded THEN endGameForRoom(W5, roomId)
     ELSE [W5 EXCEPT !.delays[roomId] = Append(@, 0)]

\* progressToNextDrawer of index.js, the callback of the inter-round delay
progressToNextDrawerForRoom(W, roomId, shuffled) ==
  LET result == progressToNextDrawer(W.rooms[roomId]) IN
  IF result.success
  THEN startRoundForRoom([W EXCEPT !.rooms[roomId] = result.room], roomId, shuffled)
  ELSE W


\* ------------------------------------------------------------ room registry
Clamp(lo, hi, x) == Max(lo, Min(hi, x))

\* validateSettings: a field the client left out keeps its default
validateSettings(settings) ==
  [maxPlayers |-> IF "maxPlayers" \in DOMAIN settings
                  THEN Clamp(LimitMaxPlayersMin, LimitMaxPlayersMax, settings.maxPlayers)
                  ELSE DEFAULT_SETTINGS.maxPlayers,
   drawTime |-> IF "drawTime" \in DOMAIN settings
                THEN Clamp(DrawTimeMin, DrawTimeMax, settings.drawTime)
                ELSE DEFAULT_SETTINGS.drawTime,
   rounds |-> IF "rounds" \in DOMAIN settings
              THEN Clamp(LimitRoundsMin, LimitRoundsMax, settings.rounds)
              ELSE DEFAULT_SETTINGS.rounds]

\* the settings payloads clients send
CreateInputs == {[rounds |-> 0]}
UpdateInputs == {[maxPlayers |-> 0, drawTime |-> 0, rounds |-> MaxRoundsAsked]}

getRoomByPlayer(R, playerId) ==
  IF \E c \in RoomIds : R[c].registered /\ Includes(R[c].players, playerId)
  THEN CHOOSE c \in RoomIds :
         /\ R[c].registered /\ Includes(R[c].players, playerId)
         /\ \A d \in RoomIds :
              (R[d].registered /\ Includes(R[d].players, playerId)) => c <= d
  ELSE NoRoomId

createRoom(R, roomId, playerId, settings) ==
  [R EXCEPT ![roomId] =
     [minted |-> TRUE, registered |-> TRUE, ownerId |-> playerId,
      players |-> <<playerId>>, settings |-> validateSettings(settings),
      status |-> "waiting", game |-> NullGame]]

\* joinRoom without the check of the status
joinRoom_anyStatus(R, playerId, roomId) ==
  LET fail(e) == [success |-> FALSE, rooms |-> R, error |-> e] IN
  IF roomId \notin RoomIds \/ ~R[roomId].registered THEN fail("Room not found")
  ELSE IF Includes(R[roomId].players, playerId) THEN fail("Already in this room")
  ELSE IF Len(R[roomId].players) >= R[roomId].settings.maxPlayers THEN fail("Room is full")
  ELSE [success |-> TRUE, rooms |-> [R EXCEPT ![roomId].players = Append(@, playerId)],
        error |-> ""]

joinRoom(R, playerId, roomId) ==
  LET fail(e) == [success |-> FALSE, rooms |-> R, error |-> e] IN
  IF roomId \notin RoomIds \/ ~R[roomId].registered THEN fail("Room not found")
  ELSE IF R[roomId].status # "waiting" THEN fail("Room is not accepting players")
  ELSE IF Includes(R[roomId].players, playerId) THEN fail("Already in this room")
  ELSE IF Len(R[roomId].players) >= R[roomId].settings.maxPlayers THEN fail("Room is full")
  ELSE [success |-> TRUE, rooms |-> [R EXCEPT ![roomId].players = Append(@, playerId)],
        error |-> ""]

\* leaveRoom without the transfer of ownership
leaveRoom_ownerKept(R, playerId, roomId) ==
  LET fail == [success |-> FALSE, rooms |-> R, deleted |-> FALSE] IN
  IF roomId \notin RoomIds \/ ~R[roomId].registered THEN fail
  ELSE IF ~Includes(R[roomId].players, playerId) THEN fail
  ELSE LET remaining == RemoveAt(R[roomId].players, IndexOf(R[roomId].players, playerId)) IN
       IF remaining = <<>>
       THEN [success |-> TRUE, deleted |-> TRUE,
             rooms |-> [R EXCEPT ![roomId].players = remaining,
                                 ![roomId].registered = FALSE]]
       ELSE [success |-> TRUE, deleted |-> FALSE,
             rooms |-> [R EXCEPT ![roomId].players = remaining]]

leaveRoom(R, playerId, roomId) ==
  LET fail == [success |-> FALSE, rooms |-> R, deleted |-> FALSE] IN
  IF roomId \notin RoomIds \/ ~R[roomId].registered THEN fail
  ELSE IF ~Includes(R[roomId].players, playerId) THEN fail
  ELSE LET remaining == RemoveAt(R[roomId].players, IndexOf(R[roomId].players, playerId)) IN
       IF remaining = <<>>
       THEN [success |-> TRUE, deleted |-> TRUE,
             rooms |-> [R EXCEPT ![roomId].players = remaining,
                                 ![roomId].registered = FALSE]]
       ELSE [success |-> TRUE, deleted |-> FALSE,
             rooms |-> [R EXCEPT ![roomId].players = remaining,
                                 ![roomId].ownerId =
                                    IF @ = playerId THEN remaining[1] ELSE @]]

\* updateRoomSettings without the check of the status
updateRoomSettings_anyStatus(R, playerId, roomId, newSettings) ==
  LET fail(e) == [success |-> FALSE, rooms |-> R, error |-> e]
      validated == validateSettings(newSettings)
  IN IF roomId \notin RoomIds \/ ~R[roomId].registered THEN fail("Room not found")
     ELSE IF R[roomId].ownerId # playerId THEN fail("Only room owner can update settings")
     ELSE IF validated.maxPlayers < Len(R[roomId].players)
       THEN fail("Cannot set max players below current player count")
     ELSE [success |-> TRUE, rooms |-> [R EXCEPT ![roomId].settings = validated],
           error |-> ""]

\* updateRoomSettings without the check of the member count
updateRoomSettings_anyCount(R, playerId, roomId, newSettings) ==
  LET fail(e) == [success |-> FALSE, rooms |-> R, error |-> e]
      validated == validateSettings(newSettings)
  IN IF roomId \notin RoomIds \/ ~R[roomId].registered THEN fail("Room not found")
     ELSE IF R[roomId].ownerId # playerId THEN fail("Only room owner can update settings")
     ELSE IF R[roomId].status # "waiting" THEN fail("Settings locked: game has started")
     ELSE [success |-> TRUE, rooms |-> [R EXCEPT ![roomId].settings = validated],
           error |-> ""]

updateRoomSettings(R, playerId, roomId, newSettings) ==
  LET fail(e) == [success |-> FALSE, rooms |-> R, error |-> e]
      validated == validateSettings(newSettings)
  IN IF roomId \notin RoomIds \/ ~R[roomId].registered THEN fail("Room not found")
     ELSE IF R[roomId].ownerId # playerId THEN fail("Only room owner can update settings")
     ELSE IF R[roomId].status # "waiting" THEN fail("Settings locked: game has started")
     ELSE IF validated.maxPlayers < Len(R[roomId].players)
       THEN fail("Cannot set max players below current player count")
     ELSE [success |-> TRUE, rooms |-> [R EXCEPT ![roomId].settings = validated],
           error |-> ""]

\* ----------------------------------------------------------------- handlers
\* A handler is an operator from the state it starts in (Cur) and its input to
\* the world W it leaves: the new values of the variables, the events it
\* emitted in order (W.out) and whether a player departed (W.left).
Cur ==
  [pstate |-> pstate, proom |-> proom, rooms |-> rooms, timers |-> timers,
   delays |-> delays, score |-> pscore, rgt |-> rgt, dclk |-> dclk, drawn |-> drawn,
   draw |-> draw, out |-> <<>>, left |-> 0, strokes |-> 0]

Connected(p) == pstate[p] = "connected"

\* the id createPlayer mints next
NextPlayerId ==
  IF \E p \in PlayerIds : pstate[p] = "new"
  THEN CHOOSE p \in PlayerIds :
         pstate[p] = "new" /\ \A q \in PlayerIds : q < p => pstate[q] # "new"
  ELSE NoPlayer

\* the code generateRoomId mints next
NextRoomId ==
  IF \E c \in RoomIds : ~rooms[c].minted
  THEN CHOOSE c \in RoomIds :
         ~rooms[c].minted /\ \A d \in RoomIds : d < c => rooms[d].minted
  ELSE NoRoomId

on_connection ==
  LET p == NextPlayerId
      W1 == [Cur EXCEPT !.pstate[p] = "connected", !.proom[p] = NoRoomId,
                        !.score[p] = NoScore]
  IN Emit(Emit(W1, NoRoomId, p, "connected", [error |-> ""]),
          NoRoomId, p, "player_updated", [playerId |-> p])

on_create_room(p, settings) ==
  IF getRoomByPlayer(rooms, p) # NoRoomId
  THEN Emit(Cur, NoRoomId, p, "room_error", [error |-> "Already in a room"])
  ELSE LET c == NextRoomId
           W1 == [Cur EXCEPT !.rooms = createRoom(@, c, p, settings),
                             !.proom[p] = c]
       IN Emit(W1, c, p, "room_created", [error |-> ""])

on_join_room(p, roomId) ==
  IF getRoomByPlayer(rooms, p) # NoRoomId
  THEN Emit(Cur, NoRoomId, p, "room_error", [error |-> "Already in a room"])
  ELSE IF roomId = NoRoomId
  THEN Emit(Cur, NoRoomId, p, "room_error", [error |-> "Invalid room ID"])
  ELSE LET result == joinRoom(rooms, p, roomId)
           W1 == [Cur EXCEPT !.rooms = result.rooms, !.proom[p] = roomId]
       IN IF result.success
          THEN broadcastRoomUpdate(Emit(W1, roomId, p, "room_joined", [error |-> ""]),
                                   roomId)
          ELSE Emit(Cur, NoRoomId, p, "room_error", [error |-> result.error])

\* leave_room without updatePlayerRoom(socket.id, null)
on_leave_room_roomIdKept(p) ==
  LET roomId == proom[p]
      result == leaveRoom(rooms, p, roomId)
      W1 == [Cur EXCEPT !.rooms = result.rooms, !.left = 1]
      W2 == Emit(W1, roomId, p, "room_left", [error |-> ""])
  IN IF roomId = NoRoomId \/ ~result.success THEN Cur
     ELSE IF result.deleted THEN W2
     ELSE broadcastRoomUpdate(W2, roomId)

on_leave_room(p) ==
  LET roomId == proom[p]
      result == leaveRoom(rooms, p, roomId)
      W1 == [Cur EXCEPT !.rooms = result.rooms, !.proom[p] = NoRoomId, !.left = 1]
      W2 == Emit(W1, roomId, p, "room_left", [error |-> ""])
  IN IF roomId = NoRoomId \/ ~result.success THEN Cur
     ELSE IF result.deleted THEN W2
     ELSE broadcastRoomUpdate(W2, roomId)

\* leaveRoom, room_updated to the members left, then removePlayer
on_disconnect(p) ==
  LET roomId == proom[p]
      result == leaveRoom(rooms, p, roomId)
      W1 == [Cur EXCEPT !.rooms = result.rooms]
      W2 == IF roomId # NoRoomId /\ result.success /\ ~result.deleted
            THEN broadcastRoomUpdate(W1, roomId)
            ELSE W1
  IN [W2 EXCEPT !.pstate[p] = "gone", !.proom[p] = NoRoomId,
                !.score[p] = NoScore, !.left = 1]

on_update_room_settings(p, settings) ==
  IF proom[p] = NoRoomId
  THEN Emit(Cur, NoRoomId, p, "room_settings_error", [error |-> "Not in a room"])
  ELSE LET result == updateRoomSettings(rooms, p, proom[p], settings) IN
       IF result.success
       THEN broadcastToRoom([Cur EXCEPT !.rooms = result.rooms], proom[p],
                            "room_settings_updated", [error |-> ""])
       ELSE Emit(Cur, NoRoomId, p, "room_settings_error", [error |-> result.error])

\* start_game without resetPlayerScores
on_start_game_scoresKept(p, shuffled) ==
  IF proom[p] = NoRoomId
  THEN Emit(Cur, NoRoomId, p, "game_error", [error |-> "Not in a room"])
  ELSE IF ~rooms[proom[p]].registered
  THEN Emit(Cur, NoRoomId, p, "game_error", [error |-> "Room not found"])
  ELSE LET roomId == proom[p]
           result == startGame(rooms[roomId], p)
           W1 == [Cur EXCEPT !.rooms[roomId] = result.room]
           W2 == broadcastToRoom(W1, roomId, "game_started",
                                 [game |-> serializeGameState(result.room)])
       IN IF result.success
          THEN startRoundForRoom(W2, roomId, shuffled)
          ELSE Emit(Cur, roomId, p, "game_error", [error |-> result.error])

on_start_game(p, shuffled) ==
  IF proom[p] = NoRoomId
  THEN Emit(Cur, NoRoomId, p, "game_error", [error |-> "Not in a room"])
  ELSE IF ~rooms[proom[p]].registered
  THEN Emit(Cur, NoRoomId, p, "game_error", [error |-> "Room not found"])
  ELSE LET roomId == proom[p]
           result == startGame(rooms[roomId], p)
           W1 == [Cur EXCEPT !.rooms[roomId] = result.room,
                             !.score = resetPlayerScores(@, result.room.players)]
           W2 == broadcastToRoom(W1, roomId, "game_started",
                                 [game |-> serializeGameState(result.room)])
       IN IF result.success
          THEN startRoundForRoom(W2, roomId, shuffled)
          ELSE Emit(Cur, roomId, p, "game_error", [error |-> result.error])

on_select_word(p, word) ==
  IF proom[p] = NoRoomId
  THEN Emit(Cur, NoRoomId, p, "game_error", [error |-> "Not in a room"])
  ELSE IF ~rooms[proom[p]].registered
  THEN Emit(Cur, NoRoomId, p, "game_error", [error |-> "Room not found"])
  ELSE IF word = NoWord
  THEN Emit(Cur, proom[p], p, "game_error", [error |-> "Invalid word selection"])
  ELSE LET roomId == proom[p]
           result == selectWord(rooms[roomId], p, word)
           W1 == [Cur EXCEPT !.rooms[roomId] = result.room,
                             !.dclk[roomId] = 0,
                             !.timers = stopTimer(@, roomId)]
           W2 == broadcastToRoom(W1, roomId, "word_selected",
                                 [maskedWord |-> result.maskedWord,
                                  autoSelected |-> FALSE])
       IN IF result.success
          THEN startDrawingPhase(W2, roomId)
          ELSE Emit(Cur, roomId, p, "game_error", [error |-> result.error])

on_guess(p, guess) ==
  IF proom[p] = NoRoomId
  THEN Emit(Cur, NoRoomId, p, "game_error", [error |-> "Not in a room"])
  ELSE IF ~rooms[proom[p]].registered
  THEN Emit(Cur, NoRoomId, p, "game_error", [error |-> "Room not found"])
  ELSE LET roomId == proom[p]
           result == validateGuess(rooms[roomId], p, guess)
           normalizedGuess == normalizeGuess(guess)
           maskedGuess == IF result.isCorrect THEN normalizedGuess
                          ELSE Stars(Len(normalizedGuess))
           W1 == broadcastToRoom([Cur EXCEPT !.rooms[roomId] = result.room], roomId,
                                 "chat_message",
                                 [playerId |-> p, message |-> maskedGuess,
                                  isCorrect |-> result.isCorrect])
           scoreResult == awardGuessScore(W1, roomId, p)
           W2 == broadcastToRoom(scoreResult.W, roomId, "correct_guess",
                                 [playerId |-> p,
                                  word |-> getSelectedWord(scoreResult.W.rooms[roomId]),
                                  score |-> scoreResult.score,
                                  totalScore |-> scoreResult.totalScore])
           W3 == broadcastToRoom(W2, roomId, "leaderboard_update",
                                 [leaderboard |-> getLeaderboard(W2.rooms[roomId], W2.score)])
       IN IF ~result.success
          THEN Emit(Cur, roomId, p, "game_error", [error |-> result.error])
          ELSE IF ~result.isCorrect THEN W1
          ELSE IF ~scoreResult.success THEN scoreResult.W
          ELSE IF allGuessersGuessed(W3.rooms[roomId])
          THEN endRoundForRoom(W3, roomId)
          ELSE W3

\* relayToGuessers without the exclusion of the drawer
relayToGuessers_all(W, roomId, ev, data) ==
  EmitAll(W, roomId, Reachable(W.rooms[roomId]), ev, [data |-> data])

\* room.players.forEach(playerId => { if (playerId !== drawerId) ... emit })
relayToGuessers(W, roomId, ev, data) ==
  LET room == W.rooms[roomId]
      guessers == SelectSeq(room.players,
                            LAMBDA q : q # room.game.drawerId /\ getPlayerById(q))
  IN EmitAll(W, roomId, guessers, ev, [data |-> data])

on_draw_start(p, data) ==
  IF proom[p] = NoRoomId
  THEN Emit(Cur, NoRoomId, p, "game_error", [error |-> "Not in a room"])
  ELSE IF ~rooms[proom[p]].registered
  THEN Emit(Cur, NoRoomId, p, "game_error", [error |-> "Room not found"])
  ELSE LET roomId == proom[p]
           result == handleDrawStart(Cur, roomId, p, data)
       IN IF result.success THEN relayToGuessers(result.W, roomId, "draw_start", result.data)
          ELSE Emit(result.W, roomId, p, "game_error", [error |-> result.error])

\* a batched event is flushed by a setTimeout of BATCH_WINDOW_MS; a refused
\* event is not answered
on_draw_move(p, data) ==
  IF proom[p] = NoRoomId \/ ~rooms[proom[p]].registered THEN Cur
  ELSE LET roomId == proom[p]
           result == handleDrawMove(Cur, roomId, p, data)
       IN IF ~result.success THEN result.W
          ELSE IF result.shouldBatch
          THEN [result.W EXCEPT !.draw[roomId].flushes = Append(@, FALSE)]
          ELSE relayToGuessers(result.W, roomId, "draw_move", result.data)

on_draw_end(p, data) ==
  IF proom[p] = NoRoomId \/ ~rooms[proom[p]].registered THEN Cur
  ELSE LET roomId == proom[p]
           result == handleDrawEnd(Cur, roomId, p, data)
       IN IF result.success THEN relayToGuessers(result.W, roomId, "draw_end", result.data)
          ELSE result.W

on_clear_canvas(p) ==
  IF proom[p] = NoRoomId
  THEN Emit(Cur, NoRoomId, p, "game_error", [error |-> "Not in a room"])
  ELSE IF ~rooms[proom[p]].registered
  THEN Emit(Cur, NoRoomId, p, "game_error", [error |-> "Room not found"])
  ELSE LET roomId == proom[p]
           result == handleClearCanvas(Cur, roomId, p)
       IN IF result.success THEN relayToGuessers(result.W, roomId, "clear_canvas", <<>>)
          ELSE Emit(result.W, roomId, p, "game_error", [error |-> result.error])

\* the setTimeout of draw_move fires on the room object it captured
onFlush(roomId, i) ==
  LET W1 == [Cur EXCEPT !.draw[roomId].flushes = RemoveAt(@, i)]
      f == flushBatch(W1.draw, roomId)
  IN IF f.batch = <<>> THEN W1
     ELSE relayToGuessers([W1 EXCEPT !.draw = f.D], roomId, "draw_move", f.batch)

on_play_again(p) ==
  IF proom[p] = NoRoomId
  THEN Emit(Cur, NoRoomId, p, "game_error", [error |-> "Not in a room"])
  ELSE IF ~rooms[proom[p]].registered
  THEN Emit(Cur, NoRoomId, p, "game_error", [error |-> "Room not found"])
  ELSE IF rooms[proom[p]].ownerId # p
  THEN Emit(Cur, proom[p], p, "game_error",
            [error |-> "Only room owner can start a new game"])
  ELSE IF rooms[proom[p]].status # "finished"
  THEN Emit(Cur, proom[p], p, "game_error", [error |-> "Game is not finished"])
  ELSE LET roomId == proom[p]
           room == resetGame(rooms[roomId])
           W1 == [Cur EXCEPT !.rooms[roomId] = room,
                             !.score = resetPlayerScores(@, room.players)]
       IN broadcastToRoom(broadcastRoomUpdate(W1, roomId), roomId,
                          "game_reset", [error |-> ""])

\* one firing of the setInterval callback of timer i of the room
onTick(roomId, i) ==
  LET t == timers[roomId][i]
      W1 == [Cur EXCEPT !.timers = tickTimer(@, roomId, i)]
  IN broadcastToRoom(W1, roomId, "timer_tick",
                     [remaining |-> t.remaining - 1, type |-> t.type])

\* the firing of the setTimeout callback of timer i of the room
onTimeout(roomId, i, shuffled) ==
  LET t == timers[roomId][i]
      W1 == [Cur EXCEPT !.timers = expireTimer(@, roomId, i)]
      auto == autoSelectWord(W1.rooms[roomId], shuffled)
      W2 == [W1 EXCEPT !.rooms[roomId] = auto.room, !.dclk[roomId] = 0]
      W3 == broadcastToRoom(W2, roomId, "word_selected",
                            [maskedWord |-> auto.maskedWord, autoSelected |-> TRUE])
  IN IF ~rooms[roomId].registered THEN W1
     ELSE IF t.type = "drawing" THEN endRoundForRoom(W1, roomId)
     ELSE IF auto.success THEN startDrawingPhase(W3, roomId)
     ELSE W1

\* the inter-round callback as a repeating one: it stays scheduled after it ran
onDelay_repeating(roomId, i, shuffled) ==
  progressToNextDrawerForRoom(Cur, roomId, shuffled)

\* the 3 s setTimeout of endRoundForRoom fires on the room object it captured
onDelay(roomId, i, shuffled) ==
  progressToNextDrawerForRoom([Cur EXCEPT !.delays[roomId] = RemoveAt(@, i)],
                              roomId, shuffled)

TickDue(roomId, i) ==
  /\ timers[roomId][i].intervalLive
  /\ timers[roomId][i].duration - timers[roomId][i].remaining < timers[roomId][i].elapsed

TimeoutDue(roomId, i) == timers[roomId][i].elapsed >= timers[roomId][i].duration

DelayDue(roomId, i) == delays[roomId][i] >= INTER_ROUND_DELAY

\* ------------------------------------------------------------------ actions
Init ==
  /\ pstate = [p \in PlayerIds |-> "new"]
  /\ proom = [p \in PlayerIds |-> NoRoomId]
  /\ pscore = [p \in PlayerIds |-> NoScore]
  /\ rooms = [c \in RoomIds |-> NoRoom]
  /\ timers = [c \in RoomIds |-> <<>>]
  /\ delays = [c \in RoomIds |-> <<>>]
  /\ rgt = [c \in RoomIds |-> {}]
  /\ dclk = [c \in RoomIds |-> 0]
  /\ drawn = [c \in RoomIds |-> <<>>]
  /\ draw = [c \in RoomIds |-> NoDraw]
  /\ wordgen = NoWordGen
  /\ tally = [games |-> 0, departures |-> 0, seconds |-> 0, strokes |-> 0,
              horizon |-> MaxSeconds, steady |-> FALSE,
              leaves |-> MaxDepartures]

\* a room object that neither the registry nor a pending callback holds is garbage
Collected(W, c) ==
  W.rooms[c].minted /\ ~W.rooms[c].registered /\ W.timers[c] = <<>> /\ W.delays[c] = <<>>

\* the rooms in which the handler started a game
GamesStarted(W) ==
  {c \in RoomIds : rooms[c].game.phase = "none" /\ W.rooms[c].game.phase # "none"}

\* the handler's world becomes the next state
Commit(W) ==
  /\ pstate' = W.pstate
  /\ proom' = W.proom
  /\ pscore' = W.score
  /\ rooms' = [c \in RoomIds |->
                 IF Collected(W, c) THEN [NoRoom EXCEPT !.minted = TRUE] ELSE W.rooms[c]]
  /\ timers' = W.timers
  /\ delays' = W.delays
  /\ rgt' = W.rgt
  /\ dclk' = [c \in RoomIds |->
                IF Collected(W, c) \/ W.rooms[c].game.phase # "drawing" THEN 0
                ELSE W.dclk[c]]
  /\ drawn' = [c \in RoomIds |->
                 IF Collected(W, c) \/ W.rooms[c].game = NullGame THEN <<>>
                 ELSE W.drawn[c]]
  /\ draw' = W.draw
  /\ wordgen' = wordgen
  /\ tally' = [tally EXCEPT !.games = @ + Cardinality(GamesStarted(W)),
                            !.departures = @ + W.left,
                            !.strokes = @ + W.strokes]
  /\ tally'.games <= MaxGames
  /\ tally'.departures <= tally.leaves
  /\ tally'.strokes <= MaxStrokes
  /\ tally.steady =>
       \A c \in RoomIds :
         rooms[c].game # NullGame => W.rooms[c].players = rooms[c].players

Connect ==
  /\ NextPlayerId # NoPlayer
  /\ Commit(on_connection)

CreateRoom(p, settings) ==
  /\ Connected(p)
  /\ getRoomByPlayer(rooms, p) = NoRoomId => NextRoomId # NoRoomId
  /\ Commit(on_create_room(p, settings))

JoinRoom(p, roomId) ==
  /\ Connected(p)
  /\ Commit(on_join_room(p, roomId))

LeaveRoom(p) ==
  /\ Connected(p)
  /\ Commit(on_leave_room(p))

Disconnect(p) ==
  /\ Connected(p)
  /\ Commit(on_disconnect(p))

UpdateRoomSettings(p, settings) ==
  /\ Connected(p)
  /\ Commit(on_update_room_settings(p, settings))

StartGame(p) ==
  /\ Connected(p)
  /\ \E shuffled \in Shuffles(getWordPool) : Commit(on_start_game(p, shuffled))

SelectWord(p, word) ==
  /\ Connected(p)
  /\ Commit(on_select_word(p, word))

Guess(p, guess) ==
  /\ Connected(p)
  /\ Commit(on_guess(p, guess))

PlayAgain(p) ==
  /\ Connected(p)
  /\ Commit(on_play_again(p))

TimerTick(roomId, i) ==
  /\ TickDue(roomId, i)
  /\ Commit(onTick(roomId, i))

TimerExpire(roomId, i) ==
  /\ TimeoutDue(roomId, i)
  /\ \E shuffled \in Shuffles(getWordPool) : Commit(onTimeout(roomId, i, shuffled))

DelayFire(roomId, i) ==
  /\ DelayDue(roomId, i)
  /\ \E shuffled \in Shuffles(getWordPool) : Commit(onDelay(roomId, i, shuffled))

CallbackDue ==
  \E c \in RoomIds :
    \/ \E i \in DOMAIN timers[c] : TickDue(c, i) \/ TimeoutDue(c, i)
    \/ \E i \in DOMAIN delays[c] : DelayDue(c, i)

Running(room) == room.game.phase \in {"word_select", "drawing"}

\* one second passes; the event loop runs every due callback first
Advance ==
  /\ ~CallbackDue
  /\ \E c \in RoomIds : timers[c] # <<>> \/ delays[c] # <<>>
  /\ tally.seconds < tally.horizon
  /\ \A c \in RoomIds : draw[c].flushes = <<>>
  /\ tally' = [tally EXCEPT !.seconds = @ + 1]
  /\ draw' = [c \in RoomIds |->
                [draw[c] EXCEPT !.last = IF @ = "recent" THEN "old" ELSE @]]
  /\ timers' = [c \in RoomIds |->
                  [i \in 1..Len(timers[c]) |->
                     [timers[c][i] EXCEPT !.elapsed = @ + 1]]]
  /\ delays' = [c \in RoomIds |-> [i \in 1..Len(delays[c]) |-> delays[c][i] + 1]]
  /\ rooms' = [c \in RoomIds |->
                 IF Running(rooms[c]) /\ rooms[c].game.sinceStart # NoTime
                 THEN [rooms[c] EXCEPT !.game.sinceStart = Min(AgeCap, @ + 1)]
                 ELSE rooms[c]]
  /\ dclk' = [c \in RoomIds |->
                IF rooms[c].game.phase = "drawing" THEN Min(AgeCap, dclk[c] + 1)
                ELSE dclk[c]]
  /\ UNCHANGED <<pstate, proom, pscore, rgt, drawn, wordgen>>

Next ==
  \/ Connect
  \/ \E p \in PlayerIds, settings \in CreateInputs : CreateRoom(p, settings)
  \/ \E p \in PlayerIds, c \in RoomIds : JoinRoom(p, c)
  \/ \E p \in PlayerIds : LeaveRoom(p)
  \/ \E p \in PlayerIds : Disconnect(p)
  \/ \E p \in PlayerIds, settings \in UpdateInputs : UpdateRoomSettings(p, settings)
  \/ \E p \in PlayerIds : StartGame(p)
  \/ \E p \in PlayerIds, w \in WordInputs : SelectWord(p, w)
  \/ \E p \in PlayerIds, g \in GuessInputs : Guess(p, g)
  \/ \E p \in PlayerIds : PlayAgain(p)
  \/ \E c \in RoomIds : \E i \in DOMAIN timers[c] : TimerTick(c, i)
  \/ \E c \in RoomIds : \E i \in DOMAIN timers[c] : TimerExpire(c, i)
  \/ \E c \in RoomIds : \E i \in DOMAIN delays[c] : DelayFire(c, i)
  \/ Advance

Spec == Init /\ [][Next]_vars

\* the same server, followed for SteadySeconds through games whose rooms keep
\* their members
InitSteady ==
  /\ pstate = [p \in PlayerIds |-> "new"]
  /\ proom = [p \in PlayerIds |-> NoRoomId]
  /\ pscore = [p \in PlayerIds |-> NoScore]
  /\ rooms = [c \in RoomIds |-> NoRoom]
  /\ timers = [c \in RoomIds |-> <<>>]
  /\ delays = [c \in RoomIds |-> <<>>]
  /\ rgt = [c \in RoomIds |-> {}]
  /\ dclk = [c \in RoomIds |-> 0]
  /\ drawn = [c \in RoomIds |-> <<>>]
  /\ draw = [c \in RoomIds |-> NoDraw]
  /\ wordgen = NoWordGen
  /\ tally = [games |-> 0, departures |-> 0, seconds |-> 0, strokes |-> 0,
              horizon |-> SteadySeconds, steady |-> TRUE,
              leaves |-> MaxDepartures]

SpecSteady == InitSteady /\ [][Next]_vars

\* drawing events, for the specification that follows them
Stroke(W) == [W EXCEPT !.strokes = 1]

DrawStart(p, data) ==
  /\ Connected(p)
  /\ Commit(Stroke(on_draw_start(p, data)))

DrawMove(p, data) ==
  /\ Connected(p)
  /\ Commit(Stroke(on_draw_move(p, data)))

DrawEnd(p, data) ==
  /\ Connected(p)
  /\ Commit(Stroke(on_draw_end(p, data)))

ClearCanvas(p) ==
  /\ Connected(p)
  /\ Commit(Stroke(on_clear_canvas(p)))

FlushDue(roomId, i) == draw[roomId].flushes[i]

FlushFire(roomId, i) ==
  /\ FlushDue(roomId, i)
  /\ Commit(onFlush(roomId, i))

\* the throttle interval (1000 / MAX_DRAW_EVENTS_PER_SECOND ms) passes
Lapse ==
  /\ \E c \in RoomIds : draw[c].last = "recent" \/ Includes(draw[c].flushes, FALSE)
  /\ draw' = [c \in RoomIds |->
                [draw[c] EXCEPT !.last = IF @ = "recent" THEN "old" ELSE @,
                                !.flushes = [i \in 1..Len(@) |-> TRUE]]]
  /\ UNCHANGED <<pstate, proom, pscore, rooms, timers, delays, rgt, dclk, drawn, wordgen,
                 tally>>

NextDraw ==
  \/ Next
  \/ \E p \in PlayerIds, data \in DrawInputs : DrawStart(p, data)
  \/ \E p \in PlayerIds, data \in DrawInputs : DrawMove(p, data)
  \/ \E p \in PlayerIds, data \in DrawInputs : DrawEnd(p, data)
  \/ \E p \in PlayerIds : ClearCanvas(p)
  \/ \E c \in RoomIds : \E i \in DOMAIN draw[c].flushes : FlushFire(c, i)
  \/ Lapse

\* the same server with its drawing events, followed for DrawSeconds from the
\* lobby of the first room: player 1 has created it and player 2 has joined
InitDraw ==
  /\ pstate = [p \in PlayerIds |-> IF p \in {1, 2} THEN "connected" ELSE "new"]
  /\ proom = [p \in PlayerIds |-> IF p \in {1, 2} THEN 1 ELSE NoRoomId]
  /\ pscore = [p \in PlayerIds |-> NoScore]
  /\ rooms = [c \in RoomIds |->
                IF c = 1
                THEN [NoRoom EXCEPT !.minted = TRUE, !.registered = TRUE, !.ownerId = 1,
                                    !.players = <<1, 2>>,
                                    !.settings.rounds = LimitRoundsMin]
                ELSE NoRoom]
  /\ timers = [c \in RoomIds |-> <<>>]
  /\ delays = [c \in RoomIds |-> <<>>]
  /\ rgt = [c \in RoomIds |-> {}]
  /\ dclk = [c \in RoomIds |-> 0]
  /\ drawn = [c \in RoomIds |-> <<>>]
  /\ draw = [c \in RoomIds |-> NoDraw]
  /\ wordgen = NoWordGen
  /\ tally = [games |-> 0, departures |-> 0, seconds |-> 0, strokes |-> 0,
              horizon |-> DrawSeconds, steady |-> FALSE,
              leaves |-> MaxDepartures]

SpecDraw == InitDraw /\ [][NextDraw]_vars

\* the game of the first room followed until it ends, from the lobby in which
\* player 1 has created the room and player 2 has joined, with the
\* fairness of the event loop: a callback that is due runs, and time passes
InitLive ==
  /\ pstate = [p \in PlayerIds |-> IF p \in {1, 2} THEN "connected" ELSE "new"]
  /\ proom = [p \in PlayerIds |-> IF p \in {1, 2} THEN 1 ELSE NoRoomId]
  /\ pscore = [p \in PlayerIds |-> NoScore]
  /\ rooms = [c \in RoomIds |->
                IF c = 1
                THEN [NoRoom EXCEPT !.minted = TRUE, !.registered = TRUE, !.ownerId = 1,
                                    !.players = <<1, 2>>,
                                    !.settings.rounds = LimitRoundsMin]
                ELSE NoRoom]
  /\ timers = [c \in RoomIds |-> <<>>]
  /\ delays = [c \in RoomIds |-> <<>>]
  /\ rgt = [c \in RoomIds |-> {}]
  /\ dclk = [c \in RoomIds |-> 0]
  /\ drawn = [c \in RoomIds |-> <<>>]
  /\ draw = [c \in RoomIds |-> NoDraw]
  /\ wordgen = NoWordGen
  /\ tally = [games |-> 0, departures |-> 0, seconds |-> 0, strokes |-> 0,
              horizon |-> LiveSeconds, steady |-> FALSE,
              leaves |-> MaxDepartures]

NextLive ==
  \/ \E p \in PlayerIds : LeaveRoom(p)
  \/ \E p \in PlayerIds : Disconnect(p)
  \/ \E p \in PlayerIds : StartGame(p)
  \/ \E p \in PlayerIds, w \in WordInputs : SelectWord(p, w)
  \/ \E p \in PlayerIds, g \in GuessInputs : Guess(p, g)
  \/ \E p \in PlayerIds, data \in DrawInputs : DrawStart(p, data)
  \/ \E p \in PlayerIds, data \in DrawInputs : DrawMove(p, data)
  \/ \E p \in PlayerIds, data \in DrawInputs : DrawEnd(p, data)
  \/ \E p \in PlayerIds : ClearCanvas(p)
  \/ \E c \in RoomIds : \E i \in DOMAIN draw[c].flushes : FlushFire(c, i)
  \/ Lapse
  \/ \E c \in RoomIds : \E i \in DOMAIN timers[c] : TimerTick(c, i)
  \/ \E c \in RoomIds : \E i \in DOMAIN timers[c] : TimerExpire(c, i)
  \/ \E c \in RoomIds : \E i \in DOMAIN delays[c] : DelayFire(c, i)
  \/ Advance

\* a callback of the event loop: a tick or an expiry of a timer, the
\* inter-round delay, the flush of a batch; or time passing
EventLoop ==
  \/ \E c \in RoomIds : \E i \in DOMAIN timers[c] : TimerTick(c, i)
  \/ \E c \in RoomIds : \E i \in DOMAIN timers[c] : TimerExpire(c, i)
  \/ \E c \in RoomIds : \E i \in DOMAIN delays[c] : DelayFire(c, i)
  \/ \E c \in RoomIds : \E i \in DOMAIN draw[c].flushes : FlushFire(c, i)
  \/ Lapse
  \/ Advance

\* a callback of the event loop is due, or time can pass: the guards of the
\* disjuncts of EventLoop, each of which changes the state when it is taken
EventLoopDue ==
  \/ CallbackDue
  \/ \E c \in RoomIds : \E i \in DOMAIN draw[c].flushes : FlushDue(c, i)
  \/ \E c \in RoomIds : draw[c].last = "recent" \/ Includes(draw[c].flushes, FALSE)
  \/ /\ \E c \in RoomIds : timers[c] # <<>> \/ delays[c] # <<>>
     /\ tally.seconds < tally.horizon
     /\ \A c \in RoomIds : draw[c].flushes = <<>>

\* weak fairness of the event loop, WF_vars(EventLoop), with its enabling
\* condition written out: the loop is not left waiting forever with work due
EventLoopFair == []<>(~EventLoopDue) \/ []<><<EventLoop>>_vars

SpecLive == InitLive /\ [][NextLive]_vars /\ EventLoopFair

\* a room that all its members leave: player 1 has created the room and
\* player 2 has joined, and every member may leave or disconnect, in any phase
\* of the game; the callbacks scheduled before the room was destroyed are
\* followed until the inter-round pause and one more word selection are over
InitAbandon ==
  /\ pstate = [p \in PlayerIds |-> IF p \in {1, 2} THEN "connected" ELSE "new"]
  /\ proom = [p \in PlayerIds |-> IF p \in {1, 2} THEN 1 ELSE NoRoomId]
  /\ pscore = [p \in PlayerIds |-> NoScore]
  /\ rooms = [c \in RoomIds |->
                IF c = 1
                THEN [NoRoom EXCEPT !.minted = TRUE, !.registered = TRUE, !.ownerId = 1,
                                    !.players = <<1, 2>>]
                ELSE NoRoom]
  /\ timers = [c \in RoomIds |-> <<>>]
  /\ delays = [c \in RoomIds |-> <<>>]
  /\ rgt = [c \in RoomIds |-> {}]
  /\ dclk = [c \in RoomIds |-> 0]
  /\ drawn = [c \in RoomIds |-> <<>>]
  /\ draw = [c \in RoomIds |-> NoDraw]
  /\ wordgen = NoWordGen
  /\ tally = [games |-> 0, departures |-> 0, seconds |-> 0, strokes |-> 0,
              horizon |-> AbandonSeconds, steady |-> FALSE,
              leaves |-> AbandonDepartures]

NextAbandon ==
  \/ \E p \in PlayerIds : LeaveRoom(p)
  \/ \E p \in PlayerIds : Disconnect(p)
  \/ \E p \in PlayerIds : StartGame(p)
  \/ \E p \in PlayerIds, w \in WordInputs : SelectWord(p, w)
  \/ \E p \in PlayerIds, g \in GuessInputs : Guess(p, g)
  \/ \E c \in RoomIds : \E i \in DOMAIN timers[c] : TimerTick(c, i)
  \/ \E c \in RoomIds : \E i \in DOMAIN timers[c] : TimerExpire(c, i)
  \/ \E c \in RoomIds : \E i \in DOMAIN delays[c] : DelayFire(c, i)
  \/ Advance

SpecAbandon == InitAbandon /\ [][NextAbandon]_vars

\* the word option generator on its own: customWords are validated as
\* update_room_settings does, the pool is built, the options are drawn
InitWords ==
  /\ pstate = [p \in PlayerIds |-> "new"]
  /\ proom = [p \in PlayerIds |-> NoRoomId]
  /\ pscore = [p \in PlayerIds |-> NoScore]
  /\ rooms = [c \in RoomIds |-> NoRoom]
  /\ timers = [c \in RoomIds |-> <<>>]
  /\ delays = [c \in RoomIds |-> <<>>]
  /\ rgt = [c \in RoomIds |-> {}]
  /\ dclk = [c \in RoomIds |-> 0]
  /\ drawn = [c \in RoomIds |-> <<>>]
  /\ draw = [c \in RoomIds |-> NoDraw]
  /\ tally = [games |-> 0, departures |-> 0, seconds |-> 0, strokes |-> 0,
              horizon |-> 0, steady |-> FALSE,
              leaves |-> MaxDepartures]
  /\ \E customWords \in CustomWordInputs :
       wordgen = [NoWordGen EXCEPT !.stage = "given", !.customWords = customWords]

ServerIdle ==
  UNCHANGED <<pstate, proom, pscore, rooms, timers, delays, rgt, dclk, drawn, draw, tally>>

ValidateWords ==
  /\ wordgen.stage = "given"
  /\ wordgen' = [wordgen EXCEPT !.stage = "validated",
                                !.customWords = validateCustomWords(@)]
  /\ ServerIdle

BuildPool ==
  /\ wordgen.stage = "validated"
  /\ wordgen' = [wordgen EXCEPT !.stage = "pooled",
                                !.pool = getWordPoolOf(WORD_LIST_TWICE, wordgen.customWords)]
  /\ ServerIdle

GenerateOptions ==
  /\ wordgen.stage = "pooled"
  /\ \E shuffled \in Shuffles(wordgen.pool) :
       wordgen' = [wordgen EXCEPT !.stage = "generated",
                                  !.options = generateWordOptions(shuffled, WORD_OPTIONS_COUNT)]
  /\ ServerIdle

NextWords == ValidateWords \/ BuildPool \/ GenerateOptions

SpecWords == InitWords /\ [][NextWords]_vars

\* ------------------------------------------------------------------- claims
\* P holds of the world every handler that can run now would leave
AllRuns(P(_)) ==
  /\ NextPlayerId # NoPlayer => P(on_connection)
  /\ \A p \in PlayerIds :
       Connected(p) =>
         /\ \A settings \in CreateInputs :
              (getRoomByPlayer(rooms, p) = NoRoomId => NextRoomId # NoRoomId)
                => P(on_create_room(p, settings))
         /\ \A c \in RoomIds : P(on_join_room(p, c))
         /\ P(on_leave_room(p))
         /\ P(on_disconnect(p))
         /\ \A settings \in UpdateInputs : P(on_update_room_settings(p, settings))
         /\ \A shuffled \in Shuffles(getWordPool) : P(on_start_game(p, shuffled))
         /\ \A w \in WordInputs : P(on_select_word(p, w))
         /\ \A g \in GuessInputs : P(on_guess(p, g))
         /\ P(on_play_again(p))
  /\ \A c \in RoomIds :
       /\ \A i \in DOMAIN timers[c] :
            /\ TickDue(c, i) => P(onTick(c, i))
            /\ TimeoutDue(c, i) =>
                 \A shuffled \in Shuffles(getWordPool) : P(onTimeout(c, i, shuffled))
       /\ \A i \in DOMAIN delays[c] :
            DelayDue(c, i) =>
              \A shuffled \in Shuffles(getWordPool) : P(onDelay(c, i, shuffled))

\* the events named ev among those a handler emitted
Events(W, ev) == {k \in DOMAIN W.out : W.out[k].ev = ev}

\* the event carries the word the drawer selected
CarriesWord(m) ==
  /\ m.secret # NoWord
  /\ \/ m.word = m.secret
     \/ m.message = m.secret
     \/ Includes(m.options, m.secret)

HidesWord(W) ==
  \A k \in DOMAIN W.out :
    (W.out[k].phase \in {"word_select", "drawing"} /\ W.out[k].to # W.out[k].drawer)
      => ~CarriesWord(W.out[k])

\* C1: while the phase is word_select or drawing, no event delivered to a
\* member other than the current drawer contains selectedWord.
C1_WordHiddenFromGuessers == AllRuns(HidesWord)

\* a guess is about to be answered with the word, sent during the drawing phase
\* to a member who is not the drawer and has not guessed
C1_WordSentToOpenGuesser ==
  \E p \in PlayerIds, g \in GuessInputs :
    /\ Connected(p)
    /\ LET W == on_guess(p, g) IN
       \E k \in DOMAIN W.out :
         /\ CarriesWord(W.out[k])
         /\ W.out[k].phase = "drawing"
         /\ W.out[k].to # W.out[k].drawer
         /\ ~Includes(W.rooms[W.out[k].room].game.guessedPlayers, W.out[k].to)

Registered == {c \in RoomIds : rooms[c].registered}

HasGame(c) == rooms[c].game # NullGame

\* C2: whenever a room has a game, drawerId = playerIds[drawerIndex].
C2_DrawerIsIndexedMember ==
  \A c \in Registered :
    HasGame(c) =>
      rooms[c].game.drawerId = At0(rooms[c].players, rooms[c].game.drawerIndex)

\* a room whose drawer has left it while the game goes on
C2_DrawerLeft ==
  \E c \in Registered :
    /\ HasGame(c)
    /\ rooms[c].game.phase \in {"word_select", "drawing"}
    /\ ~Includes(rooms[c].players, rooms[c].game.drawerId)

\* C3: status is in_game exactly when the game is in word_select, drawing or
\* round_end, finished exactly when it is in game_end, waiting exactly when
\* there is no game.
C3_StatusMatchesPhase ==
  \A c \in Registered :
    /\ rooms[c].status = "in_game" <=>
         (HasGame(c)
            /\ rooms[c].game.phase \in {"word_select", "drawing", "round_end"})
    /\ rooms[c].status = "finished" <=>
         (HasGame(c) /\ rooms[c].game.phase = "game_end")
    /\ rooms[c].status = "waiting" <=> ~HasGame(c)

\* a game has run to its end
C3_Finished ==
  \E c \in Registered : rooms[c].status = "finished" /\ rooms[c].game.phase = "game_end"

\* C4: a room never has two timers with a pending callback.
C4_OneTimerPerRoom == \A c \in RoomIds : Len(timers[c]) <= 1

\* the drawing timer runs although the word-selection timer it replaced would
\* not have expired yet: that timer was cancelled
C4_TimerReplaced ==
  \E c \in Registered :
    /\ Len(timers[c]) = 1
    /\ timers[c][1].type = "drawing"
    /\ rooms[c].game.sinceStart < WordSelectSecs

\* C5: the owner of a registered room is one of its players, exactly once.
C5_OwnerIsOneMember ==
  \A c \in Registered :
    Cardinality({i \in DOMAIN rooms[c].players : rooms[c].players[i] = rooms[c].ownerId}) = 1

\* the game's first drawer is the player who owned the room when the game
\* started; in its first tenure the room has another owner: the owner left
C5_OwnerReplaced ==
  \E c \in Registered :
    /\ HasGame(c)
    /\ rooms[c].game.currentRound = 1
    /\ rooms[c].game.drawerIndex = 0
    /\ rooms[c].ownerId # rooms[c].game.drawerId
    /\ rooms[c].ownerId = At0(rooms[c].players, 0)

RoomsOf(p) == {c \in Registered : Includes(rooms[c].players, p)}

\* C6: a player is in the players of at most one room, and the player's roomId
\* is set exactly when some room holds the player, and then names that room.
C6_OneRoomPerPlayer ==
  \A p \in PlayerIds :
    /\ Cardinality(RoomsOf(p)) <= 1
    /\ \A c \in Registered :
         Cardinality({i \in DOMAIN rooms[c].players : rooms[c].players[i] = p}) <= 1
    /\ proom[p] # NoRoomId <=> RoomsOf(p) # {}
    /\ proom[p] # NoRoomId => RoomsOf(p) = {proom[p]}

\* a player who was in a room when its game started has left it, and the room
\* goes on with the others
C6_LeftARoom ==
  \E p \in PlayerIds :
    /\ Connected(p)
    /\ pscore[p] # NoScore
    /\ proom[p] = NoRoomId
    /\ Registered # {}

NoRepeat(seq) == \A i, j \in DOMAIN seq : seq[i] = seq[j] => i = j

\* a guess that is awarded comes from a player who had not guessed, and adds
\* the player to guessedPlayers once
AwardsNewGuesser ==
  \A p \in PlayerIds, g \in GuessInputs :
    Connected(p) =>
      LET W == on_guess(p, g) IN
      (W.score[p] # pscore[p] \/ Events(W, "correct_guess") # {}) =>
        /\ ~Includes(rooms[proom[p]].game.guessedPlayers, p)
        /\ Includes(W.rooms[proom[p]].game.guessedPlayers, p)
        /\ NoRepeat(W.rooms[proom[p]].game.guessedPlayers)

\* as long as a player stays in guessedPlayers (it is emptied by startRound
\* only) the player's score is not raised
GuessedScoreKept ==
  \A c \in RoomIds, p \in PlayerIds :
    (Includes(rooms[c].game.guessedPlayers, p) /\ Includes(rooms'[c].game.guessedPlayers, p))
      => pscore'[p] <= pscore[p]

\* C7: within one drawer tenure a player is in guessedPlayers at most once and
\* gets a guess award at most once.
C7_OneAwardPerTenure ==
  /\ [](\A c \in RoomIds : NoRepeat(rooms[c].game.guessedPlayers))
  /\ []AwardsNewGuesser
  /\ [][GuessedScoreKept]_vars

\* a player who has guessed and been awarded is still connected during the same
\* drawing phase, where a further guess of that player is handled
C7_GuessedAndStillDrawing ==
  \E c \in Registered : \E p \in PlayerIds :
    /\ rooms[c].game.phase = "drawing"
    /\ Includes(rooms[c].game.guessedPlayers, p)
    /\ Connected(p) /\ proom[p] = c
    /\ pscore[p] > 0
    /\ on_guess(p, CAT_RAW).out[1].ev = "game_error"

\* the scores of a room's players are all 0 when start_game or play_again
\* has succeeded
ZeroAfterStart ==
  \A p \in PlayerIds :
    Connected(p) =>
      /\ \A shuffled \in Shuffles(getWordPool) :
           LET W == on_start_game(p, shuffled) IN
           Events(W, "game_started") # {} =>
             \A q \in Range(W.rooms[proom[p]].players) : W.score[q] = 0
      /\ LET W == on_play_again(p) IN
         Events(W, "game_reset") # {} =>
           \A q \in Range(W.rooms[proom[p]].players) : W.score[q] = 0

\* a score only goes down to 0, in the step that starts or resets the game of
\* the player's room
NoDecrease ==
  \A p \in PlayerIds :
    (pstate'[p] = "connected" /\ pscore'[p] < pscore[p]) =>
      /\ pscore'[p] = 0
      /\ proom[p] # NoRoomId
      /\ \/ rooms[proom[p]].status = "waiting" /\ rooms'[proom[p]].status = "in_game"
         \/ rooms[proom[p]].status = "finished" /\ rooms'[proom[p]].status = "waiting"

\* C8: every player's score is 0 right after a successful start_game and right
\* after a successful play_again, and between those points it never decreases.
C8_ScoresResetAndGrow == []ZeroAfterStart /\ [][NoDecrease]_vars

\* play_again has reset a room whose players had scored
C8_ResetAfterGame ==
  \E c \in Registered :
    /\ tally.games = 1
    /\ rooms[c].status = "waiting"
    /\ Len(rooms[c].players) >= 2
    /\ \A q \in Range(rooms[c].players) : pscore[q] = 0

\* every member of the room other than the drawer is in guessedPlayers
AllMembersGuessed(room) ==
  \A q \in Range(room.players) :
    q # room.game.drawerId => Includes(room.game.guessedPlayers, q)

\* the handler has ended the round: no timer of the room is left pending, the
\* game went to round_end (and on from there to game_end only), and
\* round_ended was broadcast from round_end
RoundEndedIn(W, c) ==
  /\ W.timers[c] = <<>>
  /\ W.rooms[c].game.phase \in {"round_end", "game_end"}
  /\ Events(W, "round_ended") # {}
  /\ \A k \in Events(W, "round_ended") : W.out[k].phase = "round_end"
  /\ Events(W, "timer_tick") = {}

C10_DrawingLastsDrawTime ==
  \A c \in Registered :
    /\ rooms[c].game.phase = "drawing" =>
         /\ Len(timers[c]) = 1
         /\ timers[c][1].type = "drawing"
         /\ timers[c][1].inMap
         /\ timers[c][1].duration = rooms[c].settings.drawTime
         /\ timers[c][1].elapsed = dclk[c]
         /\ dclk[c] <= rooms[c].settings.drawTime
    /\ \A i \in DOMAIN timers[c] :
         (timers[c][i].type = "drawing" /\ TimeoutDue(c, i)) =>
           /\ rooms[c].game.phase = "drawing"
           /\ dclk[c] = rooms[c].settings.drawTime
           /\ \A shuffled \in Shuffles(getWordPool) :
                LET W == onTimeout(c, i, shuffled) IN
                /\ W.rooms[c].game.phase \in {"round_end", "game_end"}
                /\ Events(W, "round_ended") # {}
                /\ \A k \in Events(W, "round_ended") : W.out[k].phase = "round_end"

\* a round of at least two members has ended with nobody in guessedPlayers:
\* the drawing timer ended it
C10_EndedByTimer ==
  \E c \in Registered :
    /\ rooms[c].game.phase = "round_end"
    /\ Len(rooms[c].players) >= 2
    /\ rooms[c].game.guessedPlayers = <<>>
    /\ rooms[c].game.sinceStart >= rooms[c].settings.drawTime
    /\ delays[c] # <<>>

\* the word_selected events of a room among those a handler emitted
Selections(W, c) == {k \in Events(W, "word_selected") : W.out[k].room = c}

\* a handler that broadcasts word_selected found the room in word_select and
\* leaves it in drawing, in the same tenure, with a word, with the drawing timer
\* as its only timer, and has sent each member one word_selected; a handler
\* that takes a room out of word_select broadcasts word_selected
OneSelection(W) ==
  \A c \in Registered :
    /\ Selections(W, c) # {} =>
         /\ rooms[c].game.phase = "word_select"
         /\ W.rooms[c].game.phase = "drawing"
         /\ W.rooms[c].game.selectedWord # NoWord
         /\ W.rooms[c].game.drawerId = rooms[c].game.drawerId
         /\ W.rooms[c].game.currentRound = rooms[c].game.currentRound
         /\ Len(W.timers[c]) = 1
         /\ W.timers[c][1].type = "drawing"
         /\ \A q \in Range(W.rooms[c].players) :
              Cardinality({k \in Selections(W, c) : W.out[k].to = q}) = 1
    /\ (rooms[c].game.phase = "word_select" /\ W.rooms[c].registered
          /\ W.rooms[c].game.phase # "word_select")
         => Selections(W, c) # {}

\* while a room is in word_select its word-selection timer, and no other, is
\* pending and not overdue; the drawer's select_word is accepted with
\* autoSelected false; the expiry of the timer selects with autoSelected true
SelectionPending ==
  \A c \in Registered :
    /\ rooms[c].game.phase = "word_select" <=>
         (Len(timers[c]) = 1 /\ timers[c][1].type = "word_selection")
    /\ rooms[c].game.phase = "word_select" =>
         /\ timers[c][1].duration = WordSelectSecs
         /\ timers[c][1].elapsed <= WordSelectSecs
         /\ \A p \in Range(rooms[c].players) :
              p = rooms[c].game.drawerId =>
                LET W == on_select_word(p, CAT_RAW) IN
                /\ Selections(W, c) # {}
                /\ \A k \in Selections(W, c) : ~W.out[k].autoSelected
         /\ TimeoutDue(c, 1) =>
              \A shuffled \in Shuffles(getWordPool) :
                LET W == onTimeout(c, 1, shuffled) IN
                /\ Selections(W, c) # {}
                /\ \A k \in Selections(W, c) : W.out[k].autoSelected

\* C11: in each drawer tenure one word selection takes effect and
\* word_selected is broadcast once, by the drawer's select_word before the
\* word-selection timer expires or by autoSelectWord at its expiry, and the
\* drawing phase starts next.
C11_OneSelectionPerTenure == []SelectionPending /\ []AllRuns(OneSelection)

\* the word-selection timer of a room is about to expire and select a word
C11_AutoSelectionDue ==
  \E c \in Registered :
    /\ rooms[c].game.phase = "word_select"
    /\ Len(timers[c]) = 1
    /\ TimeoutDue(c, 1)
    /\ \A shuffled \in Shuffles(getWordPool) :
         \E k \in Selections(onTimeout(c, 1, shuffled), c) :
           onTimeout(c, 1, shuffled).out[k].autoSelected

\* the k-th tenure of a game in a room of N members has drawer
\* playerIds[(k-1) mod N] in round (k-1) div N + 1, and there are at most
\* N * totalRounds tenures, the game being over exactly after the last
RotationOf(room, log) ==
  LET N == Len(room.players)
      R == room.game.totalRounds
      k == Len(log)
  IN /\ R = room.settings.rounds
     /\ k >= 1 /\ k <= N * R
     /\ \A j \in 1..k : log[j] = room.players[((j - 1) % N) + 1]
     /\ room.game.drawerId = log[k]
     /\ room.game.drawerIndex = (k - 1) % N
     /\ room.game.currentRound = ((k - 1) \div N) + 1
     /\ room.game.phase = "game_end" <=>
          (k = N * R /\ room.game.phase \notin {"word_select", "drawing"})

\* a handler broadcasts game_ended only after the last of the N * R tenures
EndsAfterAllTenures(W) ==
  \A k \in Events(W, "game_ended") :
    LET c == W.out[k].room IN
    /\ Len(W.drawn[c]) = Len(W.rooms[c].players) * W.rooms[c].game.totalRounds
    /\ \A q \in Range(W.rooms[c].players) :
         Cardinality({j \in DOMAIN W.drawn[c] : W.drawn[c][j] = q})
           = W.rooms[c].game.totalRounds

C13_RoundInRange ==
  \A c \in Registered :
    HasGame(c) =>
      /\ 1 <= rooms[c].game.currentRound
      /\ rooms[c].game.currentRound <= rooms[c].game.totalRounds

\* the handler changed nothing and answered the caller alone with one event ev
RefusedWith(W, p, ev) ==
  /\ W.rooms = rooms /\ W.timers = timers /\ W.delays = delays
  /\ W.score = pscore /\ W.rgt = rgt /\ W.proom = proom /\ W.pstate = pstate
  /\ Len(W.out) = 1
  /\ W.out[1].to = p
  /\ W.out[1].ev = ev

\* the room of p is waiting, p owns it and it has two members at least
MayStart(p) ==
  /\ proom[p] # NoRoomId
  /\ rooms[proom[p]].registered
  /\ rooms[proom[p]].status = "waiting"
  /\ rooms[proom[p]].ownerId = p
  /\ Len(rooms[proom[p]].players) >= 2

\* the game start_game has made of the room
Started(W, c) ==
  /\ W.rooms[c].status = "in_game"
  /\ W.rooms[c].players = rooms[c].players
  /\ W.rooms[c].game.currentRound = 1
  /\ W.rooms[c].game.totalRounds = rooms[c].settings.rounds
  /\ W.rooms[c].game.drawerIndex = 0
  /\ W.rooms[c].game.drawerId = rooms[c].players[1]
  /\ W.rooms[c].game.phase = "word_select"
  /\ W.rooms[c].game.guessedPlayers = <<>>
  /\ \A q \in Range(rooms[c].players) :
       \E k \in Events(W, "game_started") : W.out[k].to = q

\* C14: start_game succeeds only for the owner of a waiting room of two members
\* at least, and then leaves a game in round 1 with the first member as drawer,
\* in word_select, nobody having guessed, status in_game; when it fails the
\* rooms are as they were and the caller alone gets game_error.
C14_StartGameGuarded ==
  \A p \in PlayerIds :
    Connected(p) =>
      \A shuffled \in Shuffles(getWordPool) :
        LET W == on_start_game(p, shuffled) IN
        IF MayStart(p) THEN Started(W, proom[p])
        ELSE RefusedWith(W, p, "game_error")

\* a member who is not the owner of a waiting room of two is refused
C14_NotOwnerRefused ==
  \E p \in PlayerIds :
    /\ Connected(p)
    /\ proom[p] # NoRoomId
    /\ rooms[proom[p]].status = "waiting"
    /\ Len(rooms[proom[p]].players) >= 2
    /\ rooms[proom[p]].ownerId # p
    /\ \A shuffled \in Shuffles(getWordPool) :
         on_start_game(p, shuffled).out[1].error = "Only room owner can start the game"

\* p is in the guessedPlayers of the room p is in
HasGuessed(p) ==
  /\ Connected(p)
  /\ proom[p] # NoRoomId
  /\ Includes(rooms[proom[p]].game.guessedPlayers, p)

ALREADY_GUESSED == "You have already guessed correctly"

MaySelect(p) ==
  /\ proom[p] # NoRoomId
  /\ rooms[proom[p]].registered
  /\ rooms[proom[p]].game.phase = "word_select"
  /\ rooms[proom[p]].game.drawerId = p

\* C16: select_word changes the game only when the phase is word_select and the
\* sender is the drawer; from anybody else, or in another phase, it is
\* answered to the sender alone with an error and leaves the word, the masked
\* word, the phase and the timer as they were.
C16_SelectWordGuarded ==
  \A p \in PlayerIds, w \in WordInputs :
    Connected(p) =>
      LET W == on_select_word(p, w) IN
      /\ ~MaySelect(p) => RefusedWith(W, p, "game_error")
      /\ (W.rooms # rooms \/ W.timers # timers) => MaySelect(p)

\* the drawer sends select_word again during drawing and is refused
C16_SecondSelectRefused ==
  \E p \in PlayerIds :
    /\ Connected(p)
    /\ proom[p] # NoRoomId
    /\ rooms[proom[p]].game.phase = "drawing"
    /\ rooms[proom[p]].game.drawerId = p
    /\ on_select_word(p, CAT_RAW).out[1].error = "Not in word selection phase"

\* max(10, floor(100 + 100 * (1 - ratio))), ratio = clamp(elapsed / drawTime, 0, 1)
ClampedAward(drawTime, elapsed) ==
  LET e == Max(0, Min(drawTime, elapsed))
  IN Max(MIN_SCORE, (BASE_SCORE * drawTime + MAX_TIME_BONUS * (drawTime - e)) \div drawTime)

\* the seconds from game.roundStartTime to now, the elapsed time of awardGuessScore
ElapsedOf(room) == IF room.game.sinceStart = NoTime THEN 0 ELSE room.game.sinceStart

\* C17: the award of a correct guess is max(10, floor(100 + 100 * (1 - ratio)))
\* with ratio = clamp(elapsed / drawTime, 0, 1), for every elapsed time.
C17_AwardClamped ==
  \A p \in PlayerIds, g \in GuessInputs :
    Connected(p) =>
      LET W == on_guess(p, g) IN
      \A k \in Events(W, "correct_guess") :
        W.out[k].score = ClampedAward(rooms[proom[p]].settings.drawTime,
                                      ElapsedOf(rooms[proom[p]]))

\* a correct guess arrives within the drawing time but more than drawTime
\* seconds after roundStartTime, and is awarded MIN_SCORE
C17_LateGuessGetsMinimum ==
  \E p \in PlayerIds :
    /\ Connected(p)
    /\ proom[p] # NoRoomId
    /\ rooms[proom[p]].game.phase = "drawing"
    /\ ElapsedOf(rooms[proom[p]]) > rooms[proom[p]].settings.drawTime
    /\ dclk[proom[p]] <= rooms[proom[p]].settings.drawTime
    /\ \E k \in Events(on_guess(p, CAT_RAW), "correct_guess") :
         on_guess(p, CAT_RAW).out[k].score = MIN_SCORE

\* C18: the elapsed time that scores a correct guess is counted from the start
\* of the drawing phase, however long the word selection took.
C18_ElapsedFromDrawingStart ==
  \A p \in PlayerIds, g \in GuessInputs :
    Connected(p) =>
      LET W == on_guess(p, g) IN
      \A k \in Events(W, "correct_guess") :
        W.out[k].score = calculateScore(rooms[proom[p]].settings.drawTime,
                                        dclk[proom[p]], FALSE)

\* a correct guess sent as soon as drawing starts, after a word selection that
\* took its full time, is awarded less than the 200 of an immediate guess
C18_SelectionTimeCounted ==
  \E p \in PlayerIds :
    /\ Connected(p)
    /\ proom[p] # NoRoomId
    /\ rooms[proom[p]].game.phase = "drawing"
    /\ dclk[proom[p]] = 0
    /\ rooms[proom[p]].game.sinceStart = WordSelectSecs
    /\ \E k \in Events(on_guess(p, CAT_RAW), "correct_guess") :
         on_guess(p, CAT_RAW).out[k].score < BASE_SCORE + MAX_TIME_BONUS

\* ---------------------------------------------------------------------------
\* the score the drawer of room c holds after the handler is the score before
\* it plus 50 for each of the n players in guessedPlayers
DrawerAwarded(W, c, n) ==
  LET d == rooms[c].game.drawerId IN
  ScoreOrZero(W.score, d) = ScoreOrZero(pscore, d) + 50 * n

\* the handler raised the score of the drawer of a room only by ending the
\* drawing phase of that room with round_ended
DrawerScoreOnlyAtRoundEnd(W) ==
  \A c \in Registered :
    HasGame(c) =>
      LET d == rooms[c].game.drawerId IN
      (Includes(rooms[c].players, d) /\ ScoreOrZero(W.score, d) > ScoreOrZero(pscore, d))
        => /\ rooms[c].game.phase = "drawing"
           /\ W.rooms[c].game.phase \in {"round_end", "game_end"}
           /\ Events(W, "round_ended") # {}

\* C19: when a round ends, by the expiry of the drawing timer or by
\* the guess of the last guesser, the drawer's score grows by exactly 50 times
\* the number of players in guessedPlayers at that moment; no other handler
\* raises the drawer's score, and a round that has ended is no longer drawing,
\* so the award is added once per drawer tenure.
C19_DrawerAwardAtRoundEnd ==
  /\ \A c \in Registered :
       \A i \in DOMAIN timers[c] :
         (timers[c][i].type = "drawing" /\ TimeoutDue(c, i)) =>
           \A shuffled \in Shuffles(getWordPool) :
             LET W == onTimeout(c, i, shuffled) IN
             Events(W, "round_ended") # {}
               => DrawerAwarded(W, c, Len(rooms[c].game.guessedPlayers))
  /\ \A p \in PlayerIds, g \in GuessInputs :
       Connected(p) =>
         LET W == on_guess(p, g) IN
         Events(W, "round_ended") # {}
           => DrawerAwarded(W, proom[p], Len(rooms[proom[p]].game.guessedPlayers) + 1)
  /\ AllRuns(DrawerScoreOnlyAtRoundEnd)

\* a player who was the drawer and has left the room holds the award of a
\* round that ended after the departure
C19_AwardOutsideRoom ==
  \E p \in PlayerIds, c \in Registered :
    /\ Connected(p)
    /\ proom[p] = NoRoomId
    /\ HasGame(c)
    /\ rooms[c].game.drawerId = p
    /\ rooms[c].game.phase \in {"round_end", "game_end"}
    /\ pscore[p] = 50

\* ---------------------------------------------------------------------------
\* every word_options of the handler went to the drawer; every drawing_started
\* was sent in the drawing phase of a selected word, to the drawer with the
\* word and to another member with the masked word and without the word
WordDirected(W) ==
  /\ \A k \in Events(W, "word_options") :
       /\ W.out[k].to = W.out[k].drawer
       /\ W.out[k].phase = "word_select"
  /\ \A k \in Events(W, "drawing_started") :
       LET m == W.out[k] IN
       /\ m.phase = "drawing"
       /\ m.secret # NoWord
       /\ m.to = m.drawer => m.word = m.secret
       /\ m.to # m.drawer =>
            /\ m.word = NoWord
            /\ m.maskedWord = maskWord(m.secret)
            /\ m.maskedWord # m.secret
            /\ m.game.maskedWord # m.secret
            /\ ~CarriesWord(m)

\* a handler that took room c into the drawing phase sent one drawing_started
\* to each member it can reach
DrawingAnnounced(W) ==
  \A c \in RoomIds :
    (rooms[c].game.phase # "drawing" /\ W.rooms[c].game.phase = "drawing") =>
      \A q \in Range(Reachable(W.rooms[c])) :
        Cardinality({k \in Events(W, "drawing_started") :
                       W.out[k].to = q /\ W.out[k].room = c}) = 1

DrawRuns(P(_)) ==
  /\ \A p \in PlayerIds :
       Connected(p) =>
         /\ \A data \in DrawInputs :
              /\ P(on_draw_start(p, data))
              /\ P(on_draw_move(p, data))
              /\ P(on_draw_end(p, data))
         /\ P(on_clear_canvas(p))
  /\ \A c \in RoomIds :
       \A i \in DOMAIN draw[c].flushes : FlushDue(c, i) => P(onFlush(c, i))

DrawEvents == {"draw_start", "draw_move", "draw_end", "clear_canvas"}

\* the drawing events among those a handler emitted
Relayed(W) == {k \in DOMAIN W.out : W.out[k].ev \in DrawEvents}

\* every drawing event of the handler went, during the drawing phase, to a
\* member of the room who is not the drawer
RelayedToGuessers(W) ==
  \A k \in Relayed(W) :
    LET m == W.out[k] IN
    /\ m.room \in RoomIds
    /\ m.phase = "drawing"
    /\ W.rooms[m.room].status = "in_game"
    /\ m.to # m.drawer
    /\ Includes(W.rooms[m.room].players, m.to)

\* a drawing event of player p is relayed at once only if p is the current
\* drawer of p's room and the room is drawing
RelayedFromDrawer(p, W) ==
  Relayed(W) # {} =>
    /\ proom[p] # NoRoomId
    /\ hasActiveGame(rooms[proom[p]])
    /\ rooms[proom[p]].game.phase = "drawing"
    /\ rooms[proom[p]].game.drawerId = p
    /\ \A k \in Relayed(W) : W.out[k].room = proom[p]

\* C21: a drawing event is relayed only if its sender is the current drawer
\* and the phase is drawing, and every relayed drawing event, a flushed batch
\* included, is delivered during the drawing phase to members other than the
\* drawer; no other handler relays one.
C21_DrawingRelayedToGuessers ==
  /\ DrawRuns(RelayedToGuessers)
  /\ AllRuns(RelayedToGuessers)
  /\ AllRuns(LAMBDA W : Relayed(W) = {})
  /\ \A p \in PlayerIds :
       Connected(p) =>
         /\ \A data \in DrawInputs :
              /\ RelayedFromDrawer(p, on_draw_start(p, data))
              /\ RelayedFromDrawer(p, on_draw_move(p, data))
              /\ RelayedFromDrawer(p, on_draw_end(p, data))
         /\ RelayedFromDrawer(p, on_clear_canvas(p))

\* the drawer of a room of three is about to send a draw_start that both
\* guessers will receive
C21_StrokeAboutToBeRelayed ==
  \E p \in PlayerIds :
    /\ Connected(p)
    /\ Cardinality(Relayed(on_draw_start(p, STROKE))) = 2

\* ---------------------------------------------------------------------------
\* p is a member of a room in the drawing phase and is not its drawer
GuesserOfDrawing(p) ==
  /\ Connected(p)
  /\ proom[p] \in Registered
  /\ hasActiveGame(rooms[proom[p]])
  /\ rooms[proom[p]].game.phase = "drawing"
  /\ rooms[proom[p]].game.drawerId # p

\* C22: a draw_move of a member who is not the drawer, sent during the
\* drawing phase, is answered to the sender with game_error "Only drawer can
\* draw", and nothing is relayed.
C22_GuesserDrawMoveRefused ==
  \A p \in PlayerIds, data \in DrawInputs :
    GuesserOfDrawing(p) =>
      LET W == on_draw_move(p, data) IN
      /\ Relayed(W) = {}
      /\ \E k \in Events(W, "game_error") :
           W.out[k].to = p /\ W.out[k].error = "Only drawer can draw"

\* a guesser's draw_move during the drawing phase is about to be dropped
\* without any event and without any change of the drawing state
C22_GuesserDrawMoveSilent ==
  \E p \in PlayerIds :
    /\ GuesserOfDrawing(p)
    /\ on_draw_move(p, STROKE).out = <<>>
    /\ on_draw_move(p, STROKE).draw = draw

\* ---------------------------------------------------------------------------
\* join_room of p for code c has to fail: the code matches no room, the room is
\* not waiting, p is a member of a room, or the room is full
JoinMustFail(p, c) ==
  \/ ~rooms[c].registered
  \/ rooms[c].status # "waiting"
  \/ RoomsOf(p) # {}
  \/ Len(rooms[c].players) >= rooms[c].settings.maxPlayers

\* the handler changed nothing and answered p with room_error only
JoinRefused(W, p) ==
  /\ W.rooms = rooms
  /\ W.proom = proom
  /\ W.pstate = pstate
  /\ Len(W.out) = 1
  /\ W.out[1].ev = "room_error"
  /\ W.out[1].to = p

\* the handler added no member to a room that was in_game or finished
NoJoinDuringGame(W) ==
  \A c \in RoomIds :
    rooms[c].status \in {"in_game", "finished"} =>
      \A q \in Range(W.rooms[c].players) : Includes(rooms[c].players, q)

\* C23: join_room fails, leaving the room's members and the player's roomId
\* unchanged, when the code matches no room, the room is not waiting, the
\* player is a member of that or another room, or the room has maxPlayers
\* members; otherwise it adds the player; no handler adds a member to a room
\* that is in_game or finished.
C23_JoinRefusals ==
  /\ \A p \in PlayerIds, c \in RoomIds :
       Connected(p) =>
         LET W == on_join_room(p, c) IN
         IF JoinMustFail(p, c) THEN JoinRefused(W, p)
         ELSE /\ W.rooms[c].players = Append(rooms[c].players, p)
              /\ W.proom[p] = c
  /\ AllRuns(NoJoinDuringGame)

\* a player in no room is about to be refused by a room that is in_game
C23_JoinAboutToBeRefused ==
  \E p \in PlayerIds, c \in Registered :
    /\ Connected(p)
    /\ RoomsOf(p) = {}
    /\ rooms[c].status = "in_game"
    /\ on_join_room(p, c).out[1].error = "Room is not accepting players"

\* ---------------------------------------------------------------------------
\* the owner p of a waiting room asks for settings whose clamped maxPlayers is
\* below the number of members
UpdateBelowCount(p, settings) ==
  /\ Connected(p)
  /\ proom[p] \in Registered
  /\ rooms[proom[p]].ownerId = p
  /\ rooms[proom[p]].status = "waiting"
  /\ validateSettings(settings).maxPlayers < Len(rooms[proom[p]].players)

\* C24: every room has at most settings.maxPlayers members and maxPlayers is
\* within [2, 12]; a join of a full room is refused and so is an
\* update_room_settings whose clamped maxPlayers is below the member count.
C24_MembersWithinMaxPlayers ==
  /\ \A c \in Registered :
       /\ Len(rooms[c].players) <= rooms[c].settings.maxPlayers
       /\ rooms[c].settings.maxPlayers >= LimitMaxPlayersMin
       /\ rooms[c].settings.maxPlayers <= LimitMaxPlayersMax
  /\ \A p \in PlayerIds, c \in Registered :
       (Connected(p) /\ Len(rooms[c].players) >= rooms[c].settings.maxPlayers)
         => on_join_room(p, c).rooms = rooms
  /\ \A p \in PlayerIds, settings \in UpdateInputs :
       UpdateBelowCount(p, settings) =>
         LET W == on_update_room_settings(p, settings) IN
         /\ W.rooms = rooms
         /\ Len(W.out) = 1
         /\ W.out[1].ev = "room_settings_error"
         /\ W.out[1].to = p

\* the owner of a room of three is about to be refused a maxPlayers of two
C24_UpdateAboutToBeRefused ==
  \E p \in PlayerIds, settings \in UpdateInputs :
    /\ UpdateBelowCount(p, settings)
    /\ Len(rooms[proom[p]].players) = 3
    /\ validateSettings(settings).maxPlayers = 2

\* ---------------------------------------------------------------------------
\* the handler changed the settings of a room only while the room was waiting,
\* and announced it with room_settings_updated
SettingsChangeOnlyWaiting(W) ==
  \A c \in Registered :
    (W.rooms[c].registered /\ W.rooms[c].settings # rooms[c].settings) =>
      /\ rooms[c].status = "waiting"
      /\ \E k \in Events(W, "room_settings_updated") : W.out[k].room = c

\* C25: the settings of a room change only through update_room_settings sent
\* by the room's owner while the room is waiting; a request of another member,
\* or one sent while the room is in_game or finished, leaves every room as it
\* was; the game's totalRounds equals settings.rounds as long as the game
\* exists.
C25_SettingsLocked ==
  /\ AllRuns(SettingsChangeOnlyWaiting)
  /\ \A p \in PlayerIds, settings \in UpdateInputs :
       Connected(p) =>
         LET W == on_update_room_settings(p, settings) IN
         /\ \A c \in Registered : c # proom[p] => W.rooms[c] = rooms[c]
         /\ (proom[p] \in Registered
               /\ (rooms[proom[p]].ownerId # p \/ rooms[proom[p]].status # "waiting"))
              => (W.rooms = rooms /\ Events(W, "room_settings_updated") = {})
  /\ \A c \in Registered :
       HasGame(c) => rooms[c].game.totalRounds = rooms[c].settings.rounds

\* the owner of a room whose game is running is about to be refused other
\* rounds than the game has
C25_UpdateDuringGame ==
  \E p \in PlayerIds, settings \in UpdateInputs :
    /\ Connected(p)
    /\ proom[p] \in Registered
    /\ rooms[proom[p]].ownerId = p
    /\ rooms[proom[p]].status = "in_game"
    /\ validateSettings(settings).rounds # rooms[proom[p]].game.totalRounds
    /\ on_update_room_settings(p, settings).out[1].error = "Settings locked: game has started"

\* ---------------------------------------------------------------------------
\* the room createRoom and joinRoom make for the owner, members and settings
\* of room
FreshRoom(room) ==
  [minted |-> TRUE, registered |-> TRUE, ownerId |-> room.ownerId,
   players |-> room.players, settings |-> validateSettings(room.settings),
   status |-> "waiting", game |-> NullGame]

\* play_again of p will reset p's room
MayPlayAgain(p) ==
  /\ Connected(p)
  /\ proom[p] \in Registered
  /\ rooms[proom[p]].ownerId = p
  /\ rooms[proom[p]].status = "finished"

RoomChanged(W, c) ==
  /\ W.rooms[c].registered
  /\ \/ W.rooms[c].players # rooms[c].players
     \/ W.rooms[c].ownerId # rooms[c].ownerId
     \/ W.rooms[c].settings # rooms[c].settings

\* every member of room c the server can reach was sent room_updated
RoomUpdateSent(W, c) ==
  \A q \in Range(Reachable(W.rooms[c])) :
    \E k \in Events(W, "room_updated") : W.out[k].to = q /\ W.out[k].room = c

\* a handler that changed the members or the owner of a room sent room_updated
\* to every member
MembershipAnnounced(W) ==
  \A c \in Registered :
    (W.rooms[c].registered
       /\ (W.rooms[c].players # rooms[c].players \/ W.rooms[c].ownerId # rooms[c].ownerId))
      => RoomUpdateSent(W, c)

SettingsAnnounced(W) ==
  \A c \in Registered :
    (W.rooms[c].registered /\ W.rooms[c].settings # rooms[c].settings) =>
      \A q \in Range(Reachable(W.rooms[c])) :
        \E k \in Events(W, "room_settings_updated") : W.out[k].to = q /\ W.out[k].room = c

C28_OptionsDistinct ==
  wordgen.stage = "generated" =>
    /\ Len(wordgen.options) = Min(WORD_OPTIONS_COUNT, Len(wordgen.pool))
    /\ \A i, j \in DOMAIN wordgen.options :
         i # j => wordgen.options[i] # wordgen.options[j]

\* the options of a pool without custom words hold the same word twice
C28_SameWordTwice ==
  /\ wordgen.stage = "generated"
  /\ wordgen.customWords = <<>>
  /\ \E i, j \in DOMAIN wordgen.options : i # j /\ wordgen.options[i] = wordgen.options[j]

\* ---------------------------------------------------------------------------
\* p is the drawer of a room in the drawing phase
DrawerOfDrawing(p) ==
  /\ Connected(p)
  /\ proom[p] \in Registered
  /\ hasActiveGame(rooms[proom[p]])
  /\ rooms[proom[p]].game.phase = "drawing"
  /\ rooms[proom[p]].game.drawerId = p

\* the handler left the room's batch and throttle stamp as they were, changed
\* no player and no room, and relayed nothing
DrawingUndisturbed(W, roomId) ==
  /\ W.draw[roomId].batch = draw[roomId].batch
  /\ W.draw[roomId].last = draw[roomId].last
  /\ W.rooms = rooms
  /\ W.pstate = pstate
  /\ W.proom = proom
  /\ Relayed(W) = {}

\* C29: a draw_start, draw_move or draw_end of the drawer during drawing whose
\* payload is not an object leaves the room's pending batch and throttle stamp
\* unchanged and relays nothing, at once or later: no batch ever holds it.
C29_MalformedDrawingDropped ==
  /\ \A p \in PlayerIds :
       DrawerOfDrawing(p) =>
         /\ DrawingUndisturbed(on_draw_start(p, NOT_OBJECT), proom[p])
         /\ DrawingUndisturbed(on_draw_move(p, NOT_OBJECT), proom[p])
         /\ DrawingUndisturbed(on_draw_end(p, NOT_OBJECT), proom[p])
  /\ \A c \in RoomIds : ~Includes(draw[c].batch, NOT_OBJECT)

\* a payload that is not an object waits in the batch of a room that is
\* drawing, and the flush that is due relays it to a guesser
C29_MalformedStrokeAboutToBeRelayed ==
  \E c \in RoomIds :
    /\ hasActiveGame(rooms[c])
    /\ rooms[c].game.phase = "drawing"
    /\ Includes(draw[c].batch, NOT_OBJECT)
    /\ \E i \in DOMAIN draw[c].flushes :
         /\ FlushDue(c, i)
         /\ \E k \in Relayed(onFlush(c, i)) : Includes(onFlush(c, i).out[k].data, NOT_OBJECT)

\* ---------------------------------------------------------------------------
\* the timer objects whose interval or timeout is still scheduled are those of
\* activeTimers: a timer that was stopped has no callback left to be invoked
OnlyActiveTimersScheduled(T) ==
  \A c \in RoomIds : \A i \in DOMAIN T[c] : T[c][i].inMap

\* C30: once stopTimer has returned, neither the interval nor the timeout of
\* the stopped timer is scheduled, so that no tick and no expiry of it is ever
\* invoked; the timers of other rooms are untouched; stopTimer again, or for a
\* room without a timer, changes nothing.
C30_StoppedTimerSilent ==
  /\ OnlyActiveTimersScheduled(timers)
  /\ AllRuns(LAMBDA W : OnlyActiveTimersScheduled(W.timers))
  /\ \A c \in RoomIds :
       LET T == stopTimer(timers, c) IN
       /\ T[c] = <<>>
       /\ \A d \in RoomIds \ {c} : T[d] = timers[d]
       /\ stopTimer(T, c) = T
       /\ ~hasActiveTimer(timers, c) => T = timers

\* a drawing timer with seconds left is about to be stopped by the guess that
\* ends the round
C30_TimerAboutToBeStopped ==
  \E c \in Registered, p \in PlayerIds, guess \in GuessInputs :
    /\ Connected(p)
    /\ proom[p] = c
    /\ Len(timers[c]) = 1
    /\ timers[c][1].type = "drawing"
    /\ timers[c][1].intervalLive
    /\ timers[c][1].remaining > 0
    /\ ~TimeoutDue(c, 1)
    /\ on_guess(p, guess).rooms[c].game.phase = "round_end"
    /\ on_guess(p, guess).timers[c] = <<>>

\* ---------------------------------------------------------------------------
\* a timer object as startTimer leaves it
FreshTimer(t) ==
  /\ t.remaining = t.duration
  /\ t.elapsed = 0
  /\ t.intervalLive
  /\ t.inMap

\* C31: every tick of a timer passes a remaining value one below the value the
\* timer held, which is the value its previous tick passed, so that successive
\* values decrease strictly; the expiry of a timer leaves neither its interval
\* nor its timeout scheduled, so that it expires at most once and no tick of
\* it follows: a timer the room has afterwards was started by the expiry.
C31_TicksDecreaseUntilExpiry ==
  \A c \in RoomIds : \A i \in DOMAIN timers[c] :
    /\ timers[c][i].remaining <= timers[c][i].duration
    /\ TickDue(c, i) =>
         LET W == onTick(c, i) IN
         /\ W.timers[c][i].remaining = timers[c][i].remaining - 1
         /\ \A k \in Events(W, "timer_tick") :
              /\ W.out[k].remaining = W.timers[c][i].remaining
              /\ W.out[k].remaining < timers[c][i].remaining
    /\ TimeoutDue(c, i) =>
         \A shuffled \in Shuffles(getWordPool) :
           LET W == onTimeout(c, i, shuffled) IN
           /\ Len(W.timers[c]) <= 1
           /\ \A j \in DOMAIN W.timers[c] : FreshTimer(W.timers[c][j])

\* a drawing timer that has ticked is about to expire in a room with members
C31_TickedTimerAboutToExpire ==
  \E c \in Registered :
    /\ Len(timers[c]) = 1
    /\ timers[c][1].type = "drawing"
    /\ timers[c][1].remaining < timers[c][1].duration
    /\ TimeoutDue(c, 1)
    /\ rooms[c].players # <<>>

\* ---------------------------------------------------------------------------
\* the changes of phase a handler run makes to a game: endRoundForRoom sets
\* round_end and, when the game has ended, game_end in the same run
PhaseSteps ==
  {<<"word_select", "drawing">>, <<"drawing", "round_end">>, <<"drawing", "game_end">>,
   <<"round_end", "word_select">>}

\* the decision endRound takes on the room as it is at the round end
LastTenure(room) ==
  /\ room.game.drawerIndex = Len(room.players) - 1
  /\ room.game.currentRound >= room.game.totalRounds

\* the handler run ended a round of room c exactly as endRound decides: into
\* game_end for the last drawer of the last round, else into round_end with
\* the progression to the next drawer pending
RoundEndDecided(W, c) ==
  (rooms[c].registered /\ W.rooms[c].registered /\ rooms[c].game.phase = "drawing"
     /\ W.rooms[c].game.phase \in {"round_end", "game_end"}) =>
    /\ W.rooms[c].game.phase = "game_end" <=> LastTenure(rooms[c])
    /\ W.rooms[c].game.phase = "round_end" => Len(W.delays[c]) = Len(delays[c]) + 1

\* the pending progression of a room in round_end leads to the word_select of
\* the next drawer
NextDrawerFollows(c) ==
  (rooms[c].registered /\ rooms[c].game.phase = "round_end") =>
    /\ delays[c] # <<>>
    /\ \A i \in DOMAIN delays[c] : \A shuffled \in Shuffles(getWordPool) :
         LET W == onDelay(c, i, shuffled) IN
         /\ W.rooms[c].game.phase = "word_select"
         /\ W.rooms[c].game.drawerId = getNextDrawer(rooms[c]).room.game.drawerId

\* C32: the phase of a game changes only along word_select -> drawing ->
\* round_end -> (word_select | game_end); a round end leads to game_end
\* exactly when at that round end drawerIndex = len(players) - 1 and
\* currentRound >= totalRounds, and otherwise the word_select of the next
\* drawer follows.
C32_PhaseOrder ==
  /\ [][\A c \in RoomIds :
          (rooms[c].registered /\ rooms'[c].registered
             /\ rooms[c].game # NullGame /\ rooms'[c].game # NullGame
             /\ rooms'[c].game.phase # rooms[c].game.phase) =>
            <<rooms[c].game.phase, rooms'[c].game.phase>> \in PhaseSteps]_vars
  /\ [](\A c \in RoomIds : AllRuns(LAMBDA W : RoundEndDecided(W, c)))
  /\ [](\A c \in RoomIds : NextDrawerFollows(c))

\* the first drawer of a room of three is about to end the round of a game of
\* one round, which goes on with the next drawer
C32_RoundAboutToEnd ==
  \E c \in Registered :
    /\ Len(rooms[c].players) = 3
    /\ rooms[c].game.phase = "drawing"
    /\ rooms[c].game.drawerIndex = 0
    /\ rooms[c].game.currentRound >= rooms[c].game.totalRounds
    /\ \E i \in DOMAIN timers[c] :
         /\ TimeoutDue(c, i)
         /\ \E shuffled \in Shuffles(getWordPool) :
              onTimeout(c, i, shuffled).rooms[c].game.phase = "round_end"

\* ---------------------------------------------------------------------------
\* C33: the moves buffered in a room's batch are flushed by the next draw_move
\* that is not throttled, or by the batch timer, whichever comes first, and
\* are sent once: the run that sends the batch out leaves none of the moves it
\* sent in the batch, where a later flush of the batch timer would send them
\* again.
C33_BufferedMoveSentOnce ==
  /\ \A p \in PlayerIds :
       (DrawerOfDrawing(p) /\ draw[proom[p]].batch # <<>> /\ draw[proom[p]].last # "recent") =>
         LET W == on_draw_move(p, STROKE) IN
         /\ \A k \in Relayed(W) : W.out[k].data = Append(draw[proom[p]].batch, STROKE)
         /\ W.draw[proom[p]].batch = <<>>
  /\ \A c \in RoomIds : \A i \in DOMAIN draw[c].flushes :
       (FlushDue(c, i) /\ draw[c].batch # <<>>) =>
         LET W == onFlush(c, i) IN
         /\ \A k \in Relayed(W) : W.out[k].data = draw[c].batch
         /\ W.draw[c].batch = <<>>

\* a draw_move that is not throttled is about to send the buffered move and
\* itself to a guesser and to leave both in the batch, whose timer is pending
\* and will send them again
C33_BatchAboutToBeSentTwice ==
  \E p \in PlayerIds :
    /\ DrawerOfDrawing(p)
    /\ draw[proom[p]].batch # <<>>
    /\ draw[proom[p]].last # "recent"
    /\ LET c == proom[p]
           W == on_draw_move(p, STROKE) IN
       /\ Relayed(W) # {}
       /\ W.draw[c].batch = Append(draw[c].batch, STROKE)
       /\ W.draw[c].flushes # <<>>
       /\ \E k \in Relayed(W) : W.out[k].data = W.draw[c].batch

\* ---------------------------------------------------------------------------
\* the handler run sent the moves pending in room c to the guessers as a
\* draw_move before anything else it relayed
PendingFlushedFirst(W, c) ==
  /\ Relayed(W) # {}
  /\ \E k \in Relayed(W) :
       /\ W.out[k].ev = "draw_move"
       /\ W.out[k].data = draw[c].batch
       /\ \A j \in Relayed(W) : W.out[j].ev # "draw_move" => k < j

\* C34: a draw_start, draw_end or clear_canvas of the drawer, sent while moves
\* are pending in the room's batch, sends the pending moves to the guessers
\* before the event itself; no buffered move is dropped undelivered.
C34_PendingFlushedBeforeEvent ==
  \A p \in PlayerIds :
    (DrawerOfDrawing(p) /\ draw[proom[p]].batch # <<>>
       /\ Len(rooms[proom[p]].players) > 1) =>
      /\ PendingFlushedFirst(on_draw_start(p, STROKE), proom[p])
      /\ PendingFlushedFirst(on_draw_end(p, STROKE), proom[p])
      /\ PendingFlushedFirst(on_clear_canvas(p), proom[p])

\* a draw_end of the drawer is about to delete a buffered move that no
\* guesser has received: the guesser gets the draw_end alone, and the batch
\* timer will find nothing
C34_PendingAboutToBeDropped ==
  \E p \in PlayerIds :
    /\ DrawerOfDrawing(p)
    /\ draw[proom[p]].batch = <<STROKE>>
    /\ draw[proom[p]].last = "recent"
    /\ LET W == on_draw_end(p, STROKE) IN
       /\ Relayed(W) # {}
       /\ \A k \in Relayed(W) : W.out[k].ev = "draw_end"
       /\ W.draw[proom[p]].batch = <<>>

\* ---------------------------------------------------------------------------
\* the room's batch is empty and it has no throttle stamp
DrawingDiscarded(D, c) == D[c].batch = <<>> /\ D[c].last = "none"

\* every draw_move the handler run relayed went to a room that was drawing
MovesOnlyWhileDrawing(W) ==
  \A k \in Events(W, "draw_move") :
    /\ W.out[k].room \in RoomIds
    /\ rooms[W.out[k].room].game.phase = "drawing"

\* C35: the batch of a room of the registry holds moves, and the room has a
\* throttle stamp, only while its phase is drawing: the run that ends the
\* round discards both, a flush of the batch timer that fires when the room is
\* not drawing emits nothing, and no draw_move is delivered to a member of a
\* room that is not drawing.
C35_BatchOnlyWhileDrawing ==
  /\ \A c \in Registered :
       /\ rooms[c].game.phase # "drawing" => DrawingDiscarded(draw, c)
       /\ \A i \in DOMAIN draw[c].flushes :
            (FlushDue(c, i) /\ rooms[c].game.phase # "drawing") =>
              /\ onFlush(c, i).out = <<>>
              /\ DrawingDiscarded(onFlush(c, i).draw, c)
  /\ AllRuns(LAMBDA W : \A c \in RoomIds :
               (W.rooms[c].registered /\ W.rooms[c].game.phase # "drawing") =>
                 DrawingDiscarded(W.draw, c))
  /\ AllRuns(MovesOnlyWhileDrawing)
  /\ DrawRuns(MovesOnlyWhileDrawing)

\* the batch timer set during the drawing phase is due in a room whose round
\* has ended
C35_FlushDueAfterRoundEnd ==
  \E c \in Registered :
    /\ rooms[c].game.phase = "round_end"
    /\ \E i \in DOMAIN draw[c].flushes : FlushDue(c, i)
    /\ draw[c].batch = <<>>

\* ---------------------------------------------------------------------------
\* C36: a timer of d seconds that is not stopped delivers d ticks, with
\* remaining d - 1, ..., 0, and then one expiry: when the expiry callback of a
\* timer runs, the timer has delivered the tick with remaining 0.
C36_AllTicksBeforeExpiry ==
  [][\A c \in RoomIds : \A i \in DOMAIN timers[c] :
       TimerExpire(c, i) => timers[c][i].remaining = 0]_vars

\* the expiry of a drawing timer of two seconds is due together with its
\* second tick, which the expiry cancels if it runs first
C36_ExpiryDueBeforeLastTick ==
  \E c \in Registered :
    /\ Len(timers[c]) = 1
    /\ timers[c][1].duration = 2
    /\ timers[c][1].remaining = 1
    /\ TickDue(c, 1)
    /\ TimeoutDue(c, 1)
    /\ \A shuffled \in Shuffles(getWordPool) :
         \A j \in DOMAIN onTimeout(c, 1, shuffled).timers[c] :
           FreshTimer(onTimeout(c, 1, shuffled).timers[c][j])

\* ---------------------------------------------------------------------------
\* a game runs in room c, which is in the registry
GameRunning(c) == rooms[c].registered /\ hasActiveGame(rooms[c])

\* the game of room c has the callback pending that moves it on: a timer in
\* word_select and in drawing, the inter-round delay in round_end
MovesOn(c) ==
  /\ rooms[c].game.phase \in {"word_select", "drawing"} => timers[c] # <<>>
  /\ rooms[c].game.phase = "round_end" => delays[c] # <<>>

\* C37: with timers and the inter-round delay firing when they are due, every
\* game started in a room that keeps a member reaches game_end, whatever the
\* guesses, drawing events, leaves and disconnects; as long as it runs, a
\* timer or a delay is pending for it.
C37_GameEnds ==
  /\ [](\A c \in RoomIds : GameRunning(c) => MovesOn(c))
  /\ \A c \in RoomIds :
       GameRunning(c) ~> (~rooms[c].registered \/ rooms[c].game.phase = "game_end")

\* the game has ended in a room that its drawer had left during the game
C37_EndedAfterDrawerLeft ==
  \E c \in Registered :
    /\ rooms[c].game.phase = "game_end"
    /\ Len(rooms[c].players) = 1
    /\ drawn[c] # <<>>
    /\ ~Includes(rooms[c].players, drawn[c][1])

\* ---------------------------------------------------------------------------
\* the kind of timer a phase runs under, "" for a phase without timer
TimerKindOf(phase) ==
  CASE phase = "word_select" -> "word_selection"
    [] phase = "drawing" -> "drawing"
    [] OTHER -> ""

\* room c has no timer if its phase runs without one, and else one timer of
\* the kind of its phase, held by activeTimers
TimerMatchesPhase(R, T, c) ==
  IF TimerKindOf(R[c].game.phase) = ""
  THEN T[c] = <<>>
  ELSE /\ Len(T[c]) = 1
       /\ T[c][1].inMap
       /\ T[c][1].type = TimerKindOf(R[c].game.phase)

\* C38: a room of the registry has an active timer exactly when the phase of
\* its game is word_select or drawing, of the kind word_selection in
\* word_select and drawing in drawing; a room that is waiting, in round_end or
\* finished has none. Every handler run leaves it so.
C38_TimerMatchesPhase ==
  /\ \A c \in Registered : TimerMatchesPhase(rooms, timers, c)
  /\ AllRuns(LAMBDA W : \A c \in RoomIds :
               W.rooms[c].registered => TimerMatchesPhase(W.rooms, W.timers, c))

\* a room is in round_end with its members, without timer, the progression
\* to the next drawer pending
C38_NoTimerInRoundEnd ==
  \E c \in Registered :
    /\ rooms[c].game.phase = "round_end"
    /\ rooms[c].status = "in_game"
    /\ timers[c] = <<>>
    /\ delays[c] # <<>>

\* ---------------------------------------------------------------------------
\* at most one inter-round progression is pending for each room
OneProgressionPending(D) == \A c \in RoomIds : Len(D[c]) <= 1

\* C39: at most one inter-round progression is pending per room; for a room of
\* the registry one is pending exactly while the game is in round_end, with
\* status in_game, so that it never fires on a game that has ended, was reset
\* or has moved on; when it fires it is consumed and starts one tenure, so that
\* the drawer advances once for one round end.
C39_OneProgressionPerRoundEnd ==
  /\ OneProgressionPending(delays)
  /\ AllRuns(LAMBDA W : OneProgressionPending(W.delays))
  /\ \A c \in Registered :
       /\ delays[c] # <<>> <=> rooms[c].game.phase = "round_end"
       /\ delays[c] # <<>> => rooms[c].status = "in_game"
       /\ \A i \in DOMAIN delays[c] :
            DelayDue(c, i) =>
              \A shuffled \in Shuffles(getWordPool) :
                LET W == onDelay(c, i, shuffled) IN
                /\ W.delays[c] = <<>>
                /\ W.rooms[c].game.phase = "word_select"
                /\ Len(W.drawn[c]) = Len(drawn[c]) + 1

\* the inter-round progression is due in a room that has lost a member during
\* the game and has one member left
C39_ProgressionDueAfterLeave ==
  \E c \in Registered :
    /\ \E i \in DOMAIN delays[c] : DelayDue(c, i)
    /\ drawn[c] # <<>>
    /\ Len(rooms[c].players) = 1

\* ------------------------------------------------------------------- C40
\* the room object was deleted from the registry when its last member left
Destroyed(c) == rooms[c].minted /\ ~rooms[c].registered

\* the callback's world W leaves the room object of code c as it was and
\* starts no timer under the code
Inert(W, c) ==
  /\ W.rooms[c] = rooms[c]
  /\ hasActiveTimer(W.timers, c) => hasActiveTimer(timers, c)

TimersGone(c) == ~hasActiveTimer(timers, c)

TicksInert(c) ==
  \A i \in DOMAIN timers[c] : TickDue(c, i) => Inert(onTick(c, i), c)

ExpiriesInert(c) ==
  \A i \in DOMAIN timers[c] :
    TimeoutDue(c, i) =>
      \A shuffled \in Shuffles(getWordPool) : Inert(onTimeout(c, i, shuffled), c)

DelaysInert(c) ==
  \A i \in DOMAIN delays[c] :
    DelayDue(c, i) =>
      \A shuffled \in Shuffles(getWordPool) : Inert(onDelay(c, i, shuffled), c)

\* C40: once a room has been destroyed because its last member left or
\* disconnected, no timer is active under its code, and no tick, expiry or
\* inter-round delay that is due changes its game state or starts a timer for
\* it, in whatever phase the last member left
C40_DestroyedRoomQuiet ==
  \A c \in RoomIds :
    Destroyed(c) =>
      TimersGone(c) /\ TicksInert(c) /\ ExpiriesInert(c) /\ DelaysInert(c)

\* the last member left during the inter-round pause, and the delay has then
\* started a round in the destroyed room: a tenure without a drawer, with its
\* word-selection timer active under the room's code
C40_RoundStartedInDestroyedRoom ==
  \E c \in RoomIds :
    /\ Destroyed(c)
    /\ rooms[c].players = <<>>
    /\ rooms[c].game.phase = "word_select"
    /\ rooms[c].game.drawerId = NoPlayer
    /\ hasActiveTimer(timers, c)

====
